---- MODULE Spec2Model ----
(***************************************************************************)
(* A model of the KVV cancellation scraper: the deduplicating store        *)
(* (storage.ts), the train-line knowledge base and its digit-truncation    *)
(* fallback (train-lines.ts), the line resolver and the parser             *)
(* (parser/trip-parsing.ts, parser/index.ts), the observation merge        *)
(* (train-line-observations.ts) and the batch driver (workflow.ts,         *)
(* index.ts).                                                              *)
(*                                                                         *)
(* JavaScript strings are modelled as sequences of one-character strings,  *)
(* so that slice, trim, toUpperCase, localeCompare and the regular         *)
(* expressions are computed character by character as the code does.       *)
(***************************************************************************)
EXTENDS Integers, Sequences, FiniteSets, TLC

VARIABLES
    bucketFiles,   \* docs/<year>/<line>.json : bucket path -> file content
    prevBucketFiles, \* history: bucketFiles at the start of the last saveCancellations
    lastTrips,     \* history: the argument of the last saveCancellations
    lastStats,     \* the summary the last saveCancellations logged
    saved,         \* history: has saveCancellations run at all
    repeated,      \* history: the last call had the same argument as the one before
    writing,       \* the writeFile of a bucket file that is under way, if any
    defFiles,      \* docs/<year>/train-line-definitions/<name>.json : name -> content
    loadedKb,      \* TRAIN_LINE_DEFINITIONS and TRAIN_LINE_MAPPING, built when the module loads
    resolveIn,     \* the arguments of the resolveLineForTrip call under study
    resolveOut,    \* its outcome, once it has been made
    obsFiles,      \* src/train-line-definitions/data/<slug>.json : slug -> content
    items,         \* the RSS items handed to collectTrips
    pc,            \* per item: where its fetchTripsFromItem is suspended
    frame,         \* per item: the local variables of its fetchTripsFromItem
    settled,       \* per item: how its promise settled
    parsed,        \* history, per item: what its parseDetailPage call did
    mainPc,        \* where main() of index.ts is
    collected,     \* the result of collectTrips
    exitCode,      \* the exit code of the process, -1 while it runs
    history,       \* history: what was persisted to definition files, and by whom
    page,          \* the detail page handed to parseDetailPage, as text
    clock,         \* the wall clock, as an index into Instants
    parses         \* history: what each parseDetailPage call on the page returned

storeVars == <<bucketFiles, prevBucketFiles, lastTrips, lastStats, saved, repeated, writing>>

kbVars == <<defFiles, loadedKb>>
resolveVars == <<resolveIn, resolveOut>>

runVars == <<obsFiles, items, pc, frame, settled, parsed, mainPc, collected, exitCode, history>>

textVars == <<page, clock, parses>>

vars == <<storeVars, kbVars, resolveVars, runVars, textVars>>

(***************************************************************************)
(* Strings                                                                 *)
(***************************************************************************)
Digits == {"0", "1", "2", "3", "4", "5", "6", "7", "8", "9"}

\* String.prototype.slice(0, n) for n >= 0
SliceTo(s, n) == SubSeq(s, 1, IF n < Len(s) THEN n ELSE Len(s))

LowerLetters == <<"a", "b", "c", "d", "e", "f", "g", "h", "i", "j", "k", "l", "m",
                  "n", "o", "p", "q", "r", "s", "t", "u", "v", "w", "x", "y", "z">>
UpperLetters == <<"A", "B", "C", "D", "E", "F", "G", "H", "I", "J", "K", "L", "M",
                  "N", "O", "P", "Q", "R", "S", "T", "U", "V", "W", "X", "Y", "Z">>

IsLower(c) == \E i \in 1..26 : LowerLetters[i] = c
IsUpper(c) == \E i \in 1..26 : UpperLetters[i] = c
IsLetter(c) == IsLower(c) \/ IsUpper(c)
IsDigit(c) == c \in Digits
IsWordChar(c) == IsLetter(c) \/ IsDigit(c) \/ c = "_"
IsSpace(c) == c = " "
LetterIndex(c) == CHOOSE i \in 1..26 : LowerLetters[i] = c \/ UpperLetters[i] = c

ToUpperChar(c) == IF IsLower(c) THEN UpperLetters[LetterIndex(c)] ELSE c
ToLowerChar(c) == IF IsUpper(c) THEN LowerLetters[LetterIndex(c)] ELSE c
\* String.prototype.toUpperCase / toLowerCase
toUpperCase(s) == [i \in 1..Len(s) |-> ToUpperChar(s[i])]
toLowerCase(s) == [i \in 1..Len(s) |-> ToLowerChar(s[i])]

\* String.prototype.trim
RECURSIVE TrimStart(_)
TrimStart(s) == IF s # <<>> /\ IsSpace(Head(s)) THEN TrimStart(Tail(s)) ELSE s
RECURSIVE TrimEnd(_)
TrimEnd(s) ==
    IF s # <<>> /\ IsSpace(s[Len(s)]) THEN TrimEnd(SubSeq(s, 1, Len(s) - 1)) ELSE s
trim(s) == TrimEnd(TrimStart(s))

\* parseInt(s, 10) of a string of digits
DigitValue(c) == CHOOSE v \in 0..9 : <<"0", "1", "2", "3", "4", "5", "6", "7", "8", "9">>[v + 1] = c
RECURSIVE parseInt(_)
parseInt(s) ==
    IF s = <<>> THEN 0 ELSE 10 * parseInt(SubSeq(s, 1, Len(s) - 1)) + DigitValue(s[Len(s)])

\* Primary collation rank of the characters that occur in dates, times,
\* train numbers and file names: punctuation sorts before digits, digits
\* before letters (ICU root collation).
CharRank(c) ==
    CASE c = "-" -> 0
      [] c = ":" -> 1
      [] c = "0" -> 2
      [] c = "1" -> 3
      [] c = "2" -> 4
      [] c = "3" -> 5
      [] c = "4" -> 6
      [] c = "5" -> 7
      [] c = "6" -> 8
      [] c = "7" -> 9
      [] c = "8" -> 10
      [] c = "9" -> 11
      [] OTHER -> 20 + LetterIndex(c)

\* a.localeCompare(b): negative, zero or positive
RECURSIVE localeCompare(_, _)
localeCompare(a, b) ==
    IF a = <<>> /\ b = <<>> THEN 0
    ELSE IF a = <<>> THEN -1
    ELSE IF b = <<>> THEN 1
    ELSE IF CharRank(Head(a)) < CharRank(Head(b)) THEN -1
    ELSE IF CharRank(Head(a)) > CharRank(Head(b)) THEN 1
    ELSE localeCompare(Tail(a), Tail(b))

(***************************************************************************)
(* Cancellation records (types.ts)                                         *)
(***************************************************************************)
Cancellation(line, date, stand, trainNumber, fromTime) ==
    [line |-> line, date |-> date, stand |-> stand, trainNumber |-> trainNumber,
     fromStop |-> <<"A">>, fromTime |-> fromTime,
     toStop |-> <<"B">>, toTime |-> <<"9", ":", "5", "9">>, sourceUrl |-> <<"u">>]

(***************************************************************************)
(* Deduplicating store (storage.ts)                                        *)
(***************************************************************************)
\* A file is absent, unparseable, or holds a JSON array of records.
\* JSON.stringify/JSON.parse of an array of string-valued records is a
\* bijection between the array and the file text, so the file text is
\* represented by the array it encodes.
AbsentFile == [kind |-> "absent", entries |-> <<>>]
CorruptFile == [kind |-> "corrupt", entries |-> <<>>]
ArrayFile(entries) == [kind |-> "array", entries |-> entries]

\* A file whose text is the beginning of the text of ArrayFile(entries): it
\* ends after the first `written` entries, before the closing bracket
PartialFile(entries, written) == [kind |-> "partial", entries |-> SubSeq(entries, 1, written)]

loadExistingIgnoresFile(file) == <<>>

loadExisting(file) ==
    IF file.kind = "array" THEN file.entries ELSE <<>>

isDuplicateWholeRecord(a, b) == a = b

isDuplicate(a, b) ==
    a.date = b.date /\ a.trainNumber = b.trainNumber /\ a.fromTime = b.fromTime

sortDeterministic(a, b) ==
    IF localeCompare(a.date, b.date) # 0 THEN localeCompare(a.date, b.date)
    ELSE IF localeCompare(a.fromTime, b.fromTime) # 0
         THEN localeCompare(a.fromTime, b.fromTime)
    ELSE localeCompare(a.trainNumber, b.trainNumber)

\* Array.prototype.sort is stable: x goes after every element not greater than it
RECURSIVE InsertStable(_, _)
InsertStable(sorted, x) ==
    IF sorted = <<>> THEN <<x>>
    ELSE IF sortDeterministic(Head(sorted), x) <= 0
         THEN <<Head(sorted)>> \o InsertStable(Tail(sorted), x)
    ELSE <<x>> \o sorted

RECURSIVE SortEntries(_)
SortEntries(entries) ==
    IF entries = <<>> THEN <<>>
    ELSE InsertStable(SortEntries(SubSeq(entries, 1, Len(entries) - 1)),
                      entries[Len(entries)])

\* path.join of posix: the non-empty arguments joined with "/", then
\* normalised: empty and "." segments dropped, ".." removes the segment
\* before it
RECURSIVE SplitPath(_, _, _)
SplitPath(s, current, acc) ==
    IF s = <<>> THEN Append(acc, current)
    ELSE IF Head(s) = "/" THEN SplitPath(Tail(s), <<>>, Append(acc, current))
    ELSE SplitPath(Tail(s), Append(current, Head(s)), acc)

RECURSIVE NormalizeSegments(_, _)
NormalizeSegments(segments, acc) ==
    IF segments = <<>> THEN acc
    ELSE LET seg == Head(segments)
         IN IF seg = <<>> \/ seg = <<".">> THEN NormalizeSegments(Tail(segments), acc)
            ELSE IF seg = <<".", ".">> /\ acc # <<>> /\ acc[Len(acc)] # <<".", ".">>
            THEN NormalizeSegments(Tail(segments), SubSeq(acc, 1, Len(acc) - 1))
            ELSE NormalizeSegments(Tail(segments), Append(acc, seg))

RECURSIVE JoinSegments(_)
JoinSegments(segments) ==
    IF segments = <<>> THEN <<>>
    ELSE IF Len(segments) = 1 THEN Head(segments)
    ELSE Head(segments) \o <<"/">> \o JoinSegments(Tail(segments))

join(baseDir, year, fileName) ==
    LET parts == SelectSeq(<<baseDir, year, fileName>>, LAMBDA part : part # <<>>)
        joined == JoinSegments(parts)
        isAbsolute == joined # <<>> /\ Head(joined) = "/"
        normalized == JoinSegments(NormalizeSegments(SplitPath(joined, <<>>, <<>>), <<>>))
    IN IF isAbsolute THEN <<"/">> \o normalized
       ELSE IF normalized = <<>> THEN <<".">>
       ELSE normalized

\* DATA_DIR, the directory the bucket files are in
DATA_DIR == <<"d">>

JsonSuffix == <<".", "j", "s", "o", "n">>

\* One key for every year and line
bucketKeyOfAll(year, line) == <<"/">>

\* `${year}/${line}`
bucketKey(year, line) == year \o <<"/">> \o line

\* buckets: the Map from bucket key to bucket; files: the disk, file path to
\* file.  A bucket that is not in the Map yet is created from the file at
\* join(baseDir, year, `${line}.json`).
findOrCreateBucket(buckets, files, trip) ==
    LET year == SliceTo(trip.date, 4)
        line == trip.line
        key == bucketKey(year, line)
    IN IF key \in DOMAIN buckets THEN buckets
       ELSE LET filePath == join(DATA_DIR, year, line \o JsonSuffix)
            IN [k \in DOMAIN buckets \cup {key} |->
                  IF k = key
                  THEN [key |-> key, year |-> year, line |-> line, filePath |-> filePath,
                        entries |-> loadExisting(IF filePath \in DOMAIN files
                                                 THEN files[filePath] ELSE AbsentFile),
                        added |-> 0, duplicates |-> 0]
                  ELSE buckets[k]]

\* A merge in which the incoming record takes the place of the entry of its key
mergeTripReplacing(bucket, trip) ==
    IF \E i \in 1..Len(bucket.entries) : isDuplicate(bucket.entries[i], trip)
    THEN [bucket EXCEPT !.duplicates = @ + 1,
                        !.entries = [i \in 1..Len(@) |->
                                        IF isDuplicate(@[i], trip) THEN trip ELSE @[i]]]
    ELSE [bucket EXCEPT !.entries = Append(@, trip), !.added = @ + 1]

mergeTrip(bucket, trip) ==
    IF \E i \in 1..Len(bucket.entries) : isDuplicate(bucket.entries[i], trip)
    THEN [bucket EXCEPT !.duplicates = @ + 1]
    ELSE [bucket EXCEPT !.entries = Append(@, trip), !.added = @ + 1]

\* A write that keeps the entries in the order they were merged
writeBucketUnsorted(bucket) == ArrayFile(bucket.entries)

writeBucket(bucket) == ArrayFile(SortEntries(bucket.entries))

RECURSIVE MergeTrips(_, _, _)
MergeTrips(buckets, files, trips) ==
    IF trips = <<>> THEN buckets
    ELSE LET trip == Head(trips)
             withBucket == findOrCreateBucket(buckets, files, trip)
             key == bucketKey(SliceTo(trip.date, 4), trip.line)
         IN MergeTrips([withBucket EXCEPT ![key] = mergeTrip(@, trip)], files, Tail(trips))

RECURSIVE SumOver(_, _, _)
SumOver(buckets, keys, field) ==
    IF keys = {} THEN 0
    ELSE LET k == CHOOSE x \in keys : TRUE
         IN (IF field = "added" THEN buckets[k].added ELSE buckets[k].duplicates)
            + SumOver(buckets, keys \ {k}, field)

\* The whole of saveCancellations: the logged totals, the file paths of the
\* buckets, how often each file was loaded and written (once per bucket that
\* has it as its filePath), and the disks the concurrent writes of
\* Promise.all can leave: each written file holds what one of the buckets
\* with that filePath wrote
saveCancellations(files, trips) ==
    LET Write(buckets) ==
            LET written == {buckets[k].filePath : k \in DOMAIN buckets}
                BucketsOf(path) == {k \in DOMAIN buckets : buckets[k].filePath = path}
                lastWriters == {w \in [written -> DOMAIN buckets] :
                                   \A path \in written : w[path] \in BucketsOf(path)}
            IN [outcomes |-> {[path \in DOMAIN files \cup written |->
                                  IF path \in written THEN writeBucket(buckets[w[path]])
                                  ELSE files[path]] : w \in lastWriters},
                written |-> written,
                keys |-> DOMAIN buckets,
                loads |-> [path \in written |-> Cardinality(BucketsOf(path))],
                writes |-> [path \in written |-> Cardinality(BucketsOf(path))],
                added |-> SumOver(buckets, DOMAIN buckets, "added"),
                duplicates |-> SumOver(buckets, DOMAIN buckets, "duplicates")]
    IN Write(MergeTrips(<<>>, files, trips))

(***************************************************************************)
(* Line definitions and the knowledge base                                 *)
(* (train-line-definitions/index.ts, train-lines.ts)                       *)
(***************************************************************************)
\* A definition file docs/<year>/train-line-definitions/<name>.json: absent,
\* unparseable, or the JSON object {line, trainNumbers, connectedLines?}.
NoDefinitionFile ==
    [kind |-> "absent", line |-> <<>>, trainNumbers |-> <<>>,
     hasConnectedLines |-> FALSE, connectedLines |-> <<>>]
BrokenDefinitionFile ==
    [kind |-> "corrupt", line |-> <<>>, trainNumbers |-> <<>>,
     hasConnectedLines |-> FALSE, connectedLines |-> <<>>]
TrainLineDefinition(line, trainNumbers, hasConnectedLines, connectedLines) ==
    [kind |-> "def", line |-> line, trainNumbers |-> trainNumbers,
     hasConnectedLines |-> hasConnectedLines, connectedLines |-> connectedLines]

FileAt(files, name) == IF name \in DOMAIN files THEN files[name] ELSE NoDefinitionFile

\* readdirSync(...).sort((a, b) => a.localeCompare(b, 'en'))
RECURSIVE SortNames(_)
SortNames(names) ==
    IF names = {} THEN <<>>
    ELSE LET first == CHOOSE n \in names : \A m \in names : localeCompare(n, m) <= 0
         IN <<first>> \o SortNames(names \ {first})

\* loadDefinitions: every file of the directory in name order; JSON.parse of
\* an unparseable file throws while the module is being loaded.
loadDefinitions(files) ==
    LET names == SortNames({n \in DOMAIN files : files[n].kind # "absent"})
    IN [ok |-> \A n \in DOMAIN files : files[n].kind # "corrupt",
        definitions |-> [i \in 1..Len(names) |-> files[names[i]]]]

\* A plain object keyed by train number: keys in insertion order, and the entries
EmptyMapping == [keys |-> <<>>, entry |-> <<>>]

RegisterTrainNumber(map, line, trainNumber) ==
    IF trainNumber \notin DOMAIN map.entry
    THEN [keys |-> Append(map.keys, trainNumber),
          entry |-> [t \in DOMAIN map.entry \cup {trainNumber} |->
                        IF t = trainNumber
                        THEN [primaryLine |-> line, lines |-> <<line>>]
                        ELSE map.entry[t]]]
    ELSE IF \E i \in 1..Len(map.entry[trainNumber].lines) :
                map.entry[trainNumber].lines[i] = line
    THEN map
    ELSE [map EXCEPT !.entry[trainNumber].lines = Append(@, line)]

RECURSIVE RegisterTrainNumbers(_, _, _)
RegisterTrainNumbers(map, line, trainNumbers) ==
    IF trainNumbers = <<>> THEN map
    ELSE RegisterTrainNumbers(RegisterTrainNumber(map, line, Head(trainNumbers)),
                              line, Tail(trainNumbers))

RECURSIVE RegisterDefinitions(_, _)
RegisterDefinitions(map, definitions) ==
    IF definitions = <<>> THEN map
    ELSE RegisterDefinitions(
             RegisterTrainNumbers(map, Head(definitions).line, Head(definitions).trainNumbers),
             Tail(definitions))

\* buildTrainLineMapping: never fails, a train number may be listed by any lines
buildTrainLineMapping(definitions) == RegisterDefinitions(EmptyMapping, definitions)

\* LINE_TRAIN_COUNT: Object.fromEntries, a later definition of a line wins
LineTrainCount(definitions, line) ==
    LET idx == {i \in 1..Len(definitions) : definitions[i].line = line}
    IN IF idx = {} THEN -1
       ELSE Len(definitions[CHOOSE i \in idx : \A j \in idx : j <= i].trainNumbers)

\* Object.keys: canonical array-index keys first, ascending, then the other
\* keys in insertion order
IsArrayIndexKey(k) ==
    /\ Len(k) >= 1
    /\ Len(k) <= 9
    /\ \A i \in 1..Len(k) : IsDigit(k[i])
    /\ (Len(k) > 1 => k[1] # "0")

RECURSIVE AscendingKeys(_)
AscendingKeys(keys) ==
    IF keys = {} THEN <<>>
    ELSE LET least == CHOOSE k \in keys : \A m \in keys : parseInt(k) <= parseInt(m)
         IN <<least>> \o AscendingKeys(keys \ {least})

ObjectKeys(map) ==
    AscendingKeys({k \in DOMAIN map.entry : IsArrayIndexKey(k)})
    \o SelectSeq(map.keys, LAMBDA k : ~IsArrayIndexKey(k))

DropLast(s) == SubSeq(s, 1, Len(s) - 1)

\* A search that lists the matches from the last key to the first
findMatchingTrainsLastFirst(map, trainNumber) ==
    LET matches == IF Len(trainNumber) < 2 THEN <<>>
                   ELSE SelectSeq(ObjectKeys(map),
                                  LAMBDA k : DropLast(k) = DropLast(trainNumber))
    IN [i \in 1..Len(matches) |-> matches[Len(matches) + 1 - i]]

\* A search without the guard on the length of the train number
findMatchingTrainsOfAnyLength(map, trainNumber) ==
    SelectSeq(ObjectKeys(map), LAMBDA k : DropLast(k) = DropLast(trainNumber))

findMatchingTrainsWithoutLastDigit(map, trainNumber) ==
    IF Len(trainNumber) < 2 THEN <<>>
    ELSE SelectSeq(ObjectKeys(map), LAMBDA k : DropLast(k) = DropLast(trainNumber))

\* [...trainNumbers].sort((a, b) => parseInt(a) - parseInt(b)), a stable sort
RECURSIVE InsertNumeric(_, _)
InsertNumeric(sorted, x) ==
    IF sorted = <<>> THEN <<x>>
    ELSE IF parseInt(Head(sorted)) <= parseInt(x)
         THEN <<Head(sorted)>> \o InsertNumeric(Tail(sorted), x)
    ELSE <<x>> \o sorted

RECURSIVE SortNumeric(_)
SortNumeric(numbers) ==
    IF numbers = <<>> THEN <<>>
    ELSE InsertNumeric(SortNumeric(DropLast(numbers)), numbers[Len(numbers)])

addTrainNumberWithoutWrite(files, line, trainNumber) ==
    [threw |-> FileAt(files, toLowerCase(line)).kind # "def", files |-> files]

\* addTrainNumberToLineDefinition: the files afterwards, and whether
\* readFileSync or JSON.parse threw
\* A write that adds the train number to every definition file
addTrainNumberToEveryLine(files, line, trainNumber) ==
    [threw |-> FALSE,
     files |-> [n \in DOMAIN files |->
                  IF files[n].kind = "def"
                  THEN [files[n] EXCEPT !.trainNumbers = SortNumeric(Append(@, trainNumber))]
                  ELSE files[n]]]

addTrainNumberToLineDefinition(files, line, trainNumber) ==
    LET name == toLowerCase(line)
        definition == FileAt(files, name)
    IN IF definition.kind # "def" THEN [threw |-> TRUE, files |-> files]
       ELSE IF \E i \in 1..Len(definition.trainNumbers) :
                   definition.trainNumbers[i] = trainNumber
       THEN [threw |-> FALSE, files |-> files]
       ELSE [threw |-> FALSE,
             files |-> [files EXCEPT ![name] =
                          [definition EXCEPT !.trainNumbers =
                              SortNumeric(Append(definition.trainNumbers, trainNumber))]]]

\* normalizeLine: trim, undefined (here the empty string) when nothing is left
normalizeLine(line) == trim(line)

\* normalizeLines: trim and uppercase, empty values dropped
normalizeLines(lines) ==
    SelectSeq([i \in 1..Len(lines) |-> toUpperCase(trim(lines[i]))], LAMBDA l : l # <<>>)

RECURSIVE FewestTrainNumbers(_, _, _)
FewestTrainNumbers(definitions, best, rest) ==
    IF rest = <<>> THEN best
    ELSE LET bestSize == LineTrainCount(definitions, best)
             currentSize == LineTrainCount(definitions, Head(rest))
             \* an unknown line counts as Number.MAX_SAFE_INTEGER
             less == currentSize >= 0 /\ (bestSize < 0 \/ currentSize < bestSize)
         IN FewestTrainNumbers(definitions, IF less THEN Head(rest) ELSE best, Tail(rest))

\* A selection that takes the first mentioned line the entry knows
selectLineFromEntryFirstMention(definitions, entry, preferredLines) ==
    LET normalizedPreferences == normalizeLines(preferredLines)
        found(preferred) ==
            {i \in 1..Len(entry.lines) : toUpperCase(entry.lines[i]) = preferred}
        hits == SelectSeq(normalizedPreferences, LAMBDA preferred : found(preferred) # {})
    IN IF hits = <<>> THEN entry.primaryLine
       ELSE entry.lines[CHOOSE i \in found(hits[1]) : \A j \in found(hits[1]) : i <= j]

selectLineFromEntry(definitions, entry, preferredLines) ==
    LET normalizedPreferences == normalizeLines(preferredLines)
        found(preferred) ==
            {i \in 1..Len(entry.lines) : toUpperCase(entry.lines[i]) = preferred}
        hits == SelectSeq(normalizedPreferences, LAMBDA preferred : found(preferred) # {})
        matches == [k \in 1..Len(hits) |->
                      entry.lines[CHOOSE i \in found(hits[k]) :
                                     \A j \in found(hits[k]) : i <= j]]
    IN IF Len(matches) = 1 THEN matches[1]
       ELSE IF Len(matches) > 1
            THEN FewestTrainNumbers(definitions, matches[1], Tail(matches))
       ELSE entry.primaryLine

\* lookupLineForTrain: what it returns, or that it threw, and the files afterwards.
\* kb is TRAIN_LINE_MAPPING with the definitions it was built from.
lookupReturning(kb, files, trainNumber, preferredLines) ==
    IF trainNumber \in DOMAIN kb.mapping.entry
    THEN [threw |-> FALSE, error |-> "none", found |-> TRUE, via |-> "exact", files |-> files,
          line |-> selectLineFromEntry(kb.definitions, kb.mapping.entry[trainNumber],
                                       preferredLines)]
    ELSE LET matchingTrains == findMatchingTrainsWithoutLastDigit(kb.mapping, trainNumber)
         IN IF matchingTrains = <<>> \/ Head(matchingTrains) = <<>>
            THEN [threw |-> FALSE, error |-> "none", found |-> FALSE, via |-> "none", files |-> files,
                  line |-> <<>>]
            ELSE LET selectedLine ==
                         selectLineFromEntry(kb.definitions,
                                             kb.mapping.entry[Head(matchingTrains)],
                                             preferredLines)
                     written == addTrainNumberToLineDefinition(files, selectedLine, trainNumber)
                 IN [threw |-> written.threw,
                     error |-> IF written.threw THEN "io" ELSE "none",
                     found |-> ~written.threw, via |-> "fallback",
                     files |-> written.files, line |-> selectedLine]

lookupLineForTrain(kb, files, trainNumber, preferredLines) ==
    IF trainNumber \in DOMAIN kb.mapping.entry
    THEN [threw |-> FALSE, error |-> "none", found |-> TRUE, via |-> "exact", files |-> files,
          line |-> selectLineFromEntry(kb.definitions, kb.mapping.entry[trainNumber],
                                       preferredLines)]
    ELSE LET matchingTrains == findMatchingTrainsWithoutLastDigit(kb.mapping, trainNumber)
         IN IF matchingTrains = <<>> \/ Head(matchingTrains) = <<>>
            THEN [threw |-> FALSE, error |-> "none", found |-> FALSE, via |-> "none", files |-> files,
                  line |-> <<>>]
            ELSE LET selectedLine ==
                         selectLineFromEntry(kb.definitions,
                                             kb.mapping.entry[Head(matchingTrains)],
                                             preferredLines)
                     written == addTrainNumberToLineDefinition(files, selectedLine, trainNumber)
                 IN \* the write, then always: throw new Error(...selectedLine...)
                    [threw |-> TRUE,
                     error |-> IF written.threw THEN "io" ELSE "fallback",
                     found |-> FALSE, via |-> "fallback",
                     files |-> written.files, line |-> selectedLine]

(***************************************************************************)
(* Line resolver (parser/trip-parsing.ts)                                  *)
(***************************************************************************)
DEFAULT_LINE == <<"U", "N", "K", "N", "O", "W", "N">>

\* Positions after zero or more / one or more characters of a class from `from`
StarEnds(s, from, InClass(_)) ==
    {j \in from..(Len(s) + 1) : \A k \in from..(j - 1) : InClass(s[k])}
PlusEnds(s, from, InClass(_)) == StarEnds(s, from, InClass) \ {from}

\* MULTI_LINE_HINT_PATTERN = /\bund\b|,|\/|&/i
MULTI_LINE_HINT_PATTERN(s) ==
    \/ \E i \in 1..Len(s) : s[i] \in {",", "/", "&"}
    \/ \E i \in 1..(Len(s) - 2) :
          /\ toLowerCase(SubSeq(s, i, i + 2)) = <<"u", "n", "d">>
          /\ (i = 1 \/ ~IsWordChar(s[i - 1]))
          /\ (i + 2 = Len(s) \/ ~IsWordChar(s[i + 3]))

\* MULTI_LINE_RANGE_PATTERN = /[A-Za-z]+\d+\s*-\s*[A-Za-z]*\d+/
MULTI_LINE_RANGE_PATTERN(s) ==
    \E i \in 1..Len(s) :
      \E p1 \in PlusEnds(s, i, IsLetter) :
        \E p2 \in PlusEnds(s, p1, IsDigit) :
          \E p3 \in StarEnds(s, p2, IsSpace) :
            /\ p3 <= Len(s)
            /\ s[p3] = "-"
            /\ \E p4 \in StarEnds(s, p3 + 1, IsSpace) :
                 \E p5 \in StarEnds(s, p4, IsLetter) :
                    PlusEnds(s, p5, IsDigit) # {}

isAmbiguousLine(line) ==
    \/ line = <<>>
    \/ line = DEFAULT_LINE
    \/ MULTI_LINE_HINT_PATTERN(line)
    \/ MULTI_LINE_RANGE_PATTERN(line)

\* The knowledge base consulted before the single-mention rule
resolveLineForTripLookupFirst(kb, files, trainNumber, metadata) ==
    LET normalizedLine ==
            IF normalizeLine(metadata.line) = <<>> THEN DEFAULT_LINE
            ELSE normalizeLine(metadata.line)
        mapped == lookupLineForTrain(kb, files, trainNumber, metadata.mentionedLines)
    IN IF metadata.lineMentionCount > 0 /\ (mapped.threw \/ mapped.found)
       THEN [threw |-> mapped.threw, error |-> mapped.error, line |-> mapped.line,
             via |-> mapped.via, observed |-> <<>>, lookups |-> 1, files |-> mapped.files]
       ELSE [threw |-> FALSE, error |-> "none", line |-> normalizedLine,
             via |-> IF metadata.lineMentionCount = 1 THEN "single" ELSE "declared",
             observed |-> IF metadata.lineMentionCount = 1 /\ metadata.hasSink
                          THEN <<<<normalizedLine, trainNumber>>>> ELSE <<>>,
             lookups |-> IF metadata.lineMentionCount > 0 THEN 1 ELSE 0, files |-> files]

\* A resolver that consults the knowledge base whatever the article mentions
resolveLineForTripAlwaysLookup(kb, files, trainNumber, metadata) ==
    LET normalizedLine ==
            IF normalizeLine(metadata.line) = <<>> THEN DEFAULT_LINE
            ELSE normalizeLine(metadata.line)
        mapped == lookupLineForTrain(kb, files, trainNumber, metadata.mentionedLines)
    IN IF metadata.lineMentionCount = 1 /\ ~isAmbiguousLine(normalizedLine)
       THEN [threw |-> FALSE, error |-> "none", line |-> normalizedLine, via |-> "single",
             observed |-> IF metadata.hasSink THEN <<<<normalizedLine, trainNumber>>>>
                          ELSE <<>>,
             lookups |-> 0, files |-> files]
       ELSE IF mapped.threw \/ (mapped.found /\ mapped.line # <<>>)
       THEN [threw |-> mapped.threw, error |-> mapped.error, line |-> mapped.line,
             via |-> mapped.via, observed |-> <<>>, lookups |-> 1, files |-> mapped.files]
       ELSE [threw |-> FALSE, error |-> "none", line |-> normalizedLine, via |-> "declared",
             observed |-> <<>>, lookups |-> 1, files |-> mapped.files]

\* resolveLineForTrip: the line it returns or that the lookup threw, the calls
\* it made to the observation sink, the lookups it made, the files afterwards
resolveLineForTrip(kb, files, trainNumber, metadata) ==
    LET normalizedLine ==
            IF normalizeLine(metadata.line) = <<>> THEN DEFAULT_LINE
            ELSE normalizeLine(metadata.line)
        isAmbiguous == isAmbiguousLine(normalizedLine)
        hasSingleLineMention == metadata.lineMentionCount = 1
    IN IF hasSingleLineMention /\ ~isAmbiguous /\ normalizedLine # DEFAULT_LINE
       THEN [threw |-> FALSE, error |-> "none", line |-> normalizedLine, via |-> "single",
             observed |-> IF metadata.hasSink THEN <<<<normalizedLine, trainNumber>>>>
                          ELSE <<>>,
             lookups |-> 0, files |-> files]
       ELSE IF metadata.lineMentionCount > 0
       THEN LET mapped == lookupLineForTrain(kb, files, trainNumber, metadata.mentionedLines)
            IN IF mapped.threw
               THEN [threw |-> TRUE, error |-> mapped.error,
                     line |-> mapped.line, via |-> mapped.via,
                     observed |-> <<>>, lookups |-> 1, files |-> mapped.files]
               ELSE IF mapped.found /\ mapped.line # <<>>
               THEN [threw |-> FALSE, error |-> "none", line |-> mapped.line, via |-> mapped.via,
                     observed |-> <<>>, lookups |-> 1, files |-> mapped.files]
               ELSE [threw |-> FALSE, error |-> "none", line |-> normalizedLine, via |-> "declared",
                     observed |-> <<>>, lookups |-> 1, files |-> mapped.files]
       ELSE [threw |-> FALSE, error |-> "none", line |-> normalizedLine, via |-> "declared",
             observed |-> <<>>, lookups |-> 0, files |-> files]

(***************************************************************************)
(* Parser (parser/trip-parsing.ts, parser/index.ts)                        *)
(***************************************************************************)
\* What a regular expression of PATTERNS captured on a line, if it matched
NoMatch ==
    [matched |-> FALSE, trainNumber |-> <<>>, fromStop |-> <<>>, fromTime |-> <<>>,
     toStop |-> <<>>, toTime |-> <<>>]
Match(trainNumber, fromStop, fromTime, toStop, toTime) ==
    [matched |-> TRUE, trainNumber |-> trainNumber, fromStop |-> fromStop,
     fromTime |-> fromTime, toStop |-> toStop, toTime |-> toTime]

\* A line of the trip section, by what TRIP_NEW_FORMAT and TRIP_OLD_FORMAT
\* capture on it and whether TRIP_TIME_PAIR_PATTERN finds two times in it
TripLine(newMatch, oldMatch, timePair) ==
    [newMatch |-> newMatch, oldMatch |-> oldMatch, timePair |-> timePair]

Uhr == <<"U", "h", "r">>

isValidTripFields(m, format) ==
    /\ m.trainNumber # <<>>
    /\ m.fromStop # <<>>
    /\ m.fromTime # <<>>
    /\ m.toStop # <<>>
    /\ m.toTime # <<>>
    /\ format = "new" => (trim(m.toStop) # Uhr /\ trim(m.fromStop) # Uhr)

\* buildCancellation: the record, and what resolving its line did
buildCancellation(kb, files, m, metadata) ==
    LET Built(resolved) ==
          [isNull |-> FALSE,
           resolved |-> resolved,
           trip |-> [line |-> resolved.line, date |-> metadata.date,
                     stand |-> metadata.stand, trainNumber |-> m.trainNumber,
                     fromStop |-> trim(m.fromStop), fromTime |-> m.fromTime,
                     toStop |-> trim(m.toStop), toTime |-> m.toTime,
                     sourceUrl |-> metadata.sourceUrl]]
    IN Built(resolveLineForTrip(kb, files, m.trainNumber, metadata))

\* parseTripLine returns null for a line that is in neither format
NullTrip ==
    [isNull |-> TRUE,
     resolved |-> [threw |-> FALSE, error |-> "none", line |-> <<>>, via |-> "none",
                   observed |-> <<>>, lookups |-> 0, files |-> <<>>],
     trip |-> <<>>]

parseTripLine(kb, files, line, metadata) ==
    IF line.newMatch.matched /\ isValidTripFields(line.newMatch, "new")
    THEN buildCancellation(kb, files, line.newMatch, metadata)
    ELSE IF line.oldMatch.matched /\ isValidTripFields(line.oldMatch, "old")
    THEN buildCancellation(kb, files, line.oldMatch, metadata)
    ELSE NullTrip

normalizeTrainNumber(trainNumber) == trim(trainNumber)

\* The recorder of createTrainLineObservationRecorder: a Map from line to the Set
\* of its train numbers, both in insertion order
record(observations, line, trainNumber) ==
    LET normalizedLine == normalizeLine(line)
        normalizedTrainNum == normalizeTrainNumber(trainNumber)
    IN IF normalizedLine = <<>> \/ normalizedTrainNum = <<>> THEN observations
       ELSE IF \E i \in 1..Len(observations) : observations[i].line = normalizedLine
       THEN [i \in 1..Len(observations) |->
               IF observations[i].line = normalizedLine
                  /\ \A k \in 1..Len(observations[i].trainNumbers) :
                        observations[i].trainNumbers[k] # normalizedTrainNum
               THEN [observations[i] EXCEPT !.trainNumbers = Append(@, normalizedTrainNum)]
               ELSE observations[i]]
       ELSE Append(observations,
                   [line |-> normalizedLine, trainNumbers |-> <<normalizedTrainNum>>])

RECURSIVE RecordAll(_, _)
RecordAll(observations, observed) ==
    IF observed = <<>> THEN observations
    ELSE RecordAll(record(observations, Head(observed)[1], Head(observed)[2]), Tail(observed))

\* The loop of parseDetailPage over the trip lines; it ends at the first error
\* that is not a MultiLineMappingError. log lists the resolveLineForTrip calls.
RECURSIVE ParseTripLines(_, _, _, _)
ParseTripLines(kb, metadata, tripLines, acc) ==
    IF tripLines = <<>> \/ acc.threw THEN acc
    ELSE LET Call(r) == [trainNumber |-> r.trip.trainNumber, via |-> r.resolved.via,
                         threw |-> r.resolved.threw, error |-> r.resolved.error,
                         line |-> r.resolved.line, lookups |-> r.resolved.lookups]
             After(r, call) ==
              IF r.isNull THEN acc
              ELSE IF r.resolved.threw /\ r.resolved.error = "multiLine"
              THEN [acc EXCEPT !.unmapped = Append(@, r.trip.trainNumber),
                               !.files = r.resolved.files, !.log = Append(@, call)]
              ELSE IF r.resolved.threw
              THEN [acc EXCEPT !.threw = TRUE, !.error = r.resolved.error,
                               !.files = r.resolved.files, !.log = Append(@, call)]
              ELSE [acc EXCEPT !.trips = Append(@, r.trip),
                               !.observations = RecordAll(@, r.resolved.observed),
                               !.files = r.resolved.files, !.log = Append(@, call)]
             Rest(r) == ParseTripLines(kb, metadata, Tail(tripLines), After(r, Call(r)))
         IN Rest(parseTripLine(kb, acc.files, Head(tripLines), metadata))

\* The article as text-extraction.ts and extractTripLines hand it to the loop
Article(line, mentionedLines, date, stand, tripLines) ==
    [line |-> line, mentionedLines |-> mentionedLines, date |-> date, stand |-> stand,
     tripLines |-> tripLines]

ParseStart(files) ==
    [threw |-> FALSE, error |-> "none", isParseError |-> FALSE, trips |-> <<>>,
     observations |-> <<>>, files |-> files, log |-> <<>>, unmapped |-> <<>>]

\* A parser that returns the empty list when it found no trips
parseDetailPageReturningEmpty(kb, files, article, url) ==
    ParseTripLines(kb,
                   [line |-> article.line, mentionedLines |-> article.mentionedLines,
                    date |-> article.date, stand |-> article.stand, sourceUrl |-> url,
                    lineMentionCount |-> Len(article.mentionedLines), hasSink |-> TRUE],
                   article.tripLines, ParseStart(files))

\* parseDetailPage: the trips it returns or the error it throws, the
\* observations it recorded, and the definition files afterwards
parseDetailPage(kb, files, article, url) ==
    LET metadata == [line |-> article.line, mentionedLines |-> article.mentionedLines,
                     date |-> article.date, stand |-> article.stand, sourceUrl |-> url,
                     lineMentionCount |-> Len(article.mentionedLines), hasSink |-> TRUE]
        End(done) ==
           IF done.threw THEN [done EXCEPT !.trips = <<>>]
           ELSE IF done.unmapped # <<>>
           THEN [done EXCEPT !.threw = TRUE, !.error = "multiLine", !.isParseError = TRUE,
                             !.trips = <<>>]
           ELSE IF done.trips = <<>>
           THEN [done EXCEPT !.threw = TRUE, !.error = "noTrips", !.isParseError = TRUE]
           ELSE done
    IN End(ParseTripLines(kb, metadata, article.tripLines, ParseStart(files)))

(***************************************************************************)
(* The trip grammar on text (parser/patterns.ts) and the merge of physical *)
(* lines into trip candidates (parser/trip-parsing.ts)                     *)
(***************************************************************************)
\* U+2013, the second character of the class [-–]
EnDash == "EN DASH"
IsDash(c) == c \in {"-", EnDash}
\* "." matches every character but a line terminator
IsAnyChar(c) == c # "\n"

\* (\d{1,2}:\d{2}) at position p with h hour digits
TimeAt(s, p, h) ==
    /\ p + h + 2 <= Len(s)
    /\ \A i \in p..(p + h - 1) : IsDigit(s[i])
    /\ s[p + h] = ":"
    /\ IsDigit(s[p + h + 1])
    /\ IsDigit(s[p + h + 2])

\* The positions at which one element of a pattern can end when it starts at
\* position p of s
ElementEnds(element, s, p) ==
    CASE element = "digits+" -> PlusEnds(s, p, IsDigit)
      [] element = "ws+" -> PlusEnds(s, p, IsSpace)
      [] element = "ws*" -> StarEnds(s, p, IsSpace)
      [] element = "any+" -> PlusEnds(s, p, IsAnyChar)
      [] element = "any+?" -> PlusEnds(s, p, IsAnyChar)
      [] element = "dash+" -> PlusEnds(s, p, IsDash)
      [] element = "time" -> {p + h + 3 : h \in {h \in {1, 2} : TimeAt(s, p, h)}}
      [] element = "uhr?" ->
            {p} \cup {e + 3 : e \in {e \in StarEnds(s, p, IsSpace) :
                                       /\ e + 2 <= Len(s)
                                       /\ SubSeq(s, e, e + 2) = <<"U", "h", "r">>}}
      [] element = "(" -> IF p <= Len(s) /\ s[p] = "(" THEN {p + 1} ELSE {}
      [] element = ")" -> IF p <= Len(s) /\ s[p] = ")" THEN {p + 1} ELSE {}

\* The rest of the pattern, from element k on, matches at position p
\* The positions at which the pattern can end when its elements from k on
\* start at one of the given positions
RECURSIVE PatternEnds(_, _, _, _)
PatternEnds(pattern, k, s, positions) ==
    IF k > Len(pattern) \/ positions = {} THEN positions
    ELSE PatternEnds(pattern, k + 1, s,
                     UNION {ElementEnds(pattern[k], s, p) : p \in positions})

MatchesFrom(pattern, k, s, p) == PatternEnds(pattern, k, s, {p}) # {}

\* The match a backtracking matcher finds first: each element takes the end
\* it prefers (the longest, for the lazy element the shortest) among those
\* from which the rest of the pattern matches.  The result is the sequence
\* of the elements' end positions.
\* The end that element k takes when it starts at p: the one it prefers
\* among those from which the rest of the pattern matches
PreferredEnd(pattern, k, s, p) ==
    LET viable == {e \in ElementEnds(pattern[k], s, p) : MatchesFrom(pattern, k + 1, s, e)}
    IN IF pattern[k] = "any+?"
       THEN CHOOSE x \in viable : \A y \in viable : x <= y
       ELSE CHOOSE x \in viable : \A y \in viable : x >= y

RECURSIVE FirstMatch(_, _, _, _, _)
FirstMatch(pattern, k, s, p, ends) ==
    IF k > Len(pattern) THEN ends
    ELSE CHOOSE result \in {FirstMatch(pattern, k + 1, s, e, ends \o <<e>>) :
                               e \in {PreferredEnd(pattern, k, s, p)}} : TRUE

\* s.match(pattern) for a pattern anchored with ^: the text of each element
RegexMatch(pattern, s) ==
    IF ~MatchesFrom(pattern, 1, s, 1) THEN [matched |-> FALSE, text |-> <<>>]
    ELSE LET Texts(ends) ==
                 [k \in 1..Len(pattern) |->
                     SubSeq(s, IF k = 1 THEN 1 ELSE ends[k - 1], ends[k] - 1)]
         IN [matched |-> TRUE, text |-> Texts(FirstMatch(pattern, 1, s, 1, <<>>))]

\* /^(\d+)\s+(\d{1,2}:\d{2})(?:\s*Uhr)?\s+(.+?)\s*[-–]+\s*(\d{1,2}:\d{2})(?:\s*Uhr)?\s+(.+)/
TRIP_NEW_FORMAT ==
    <<"digits+", "ws+", "time", "uhr?", "ws+", "any+?", "ws*", "dash+", "ws*", "time",
      "uhr?", "ws+", "any+">>

\* /^(\d+)\s+(.+?)\s+\((\d{1,2}:\d{2})(?:\s*Uhr)?\)\s*[-–]+\s*(.+?)\s+\((\d{1,2}:\d{2})(?:\s*Uhr)?\)/
TRIP_OLD_FORMAT ==
    <<"digits+", "ws+", "any+?", "ws+", "(", "time", "uhr?", ")", "ws*", "dash+", "ws*",
      "any+?", "ws+", "(", "time", "uhr?", ")">>

\* line.match(PATTERNS.TRIP_NEW_FORMAT) with its groups 1, 3, 2, 5, 4
MatchNew(line) ==
    LET Groups(m) == IF ~m.matched THEN NoMatch
                     ELSE Match(m.text[1], m.text[6], m.text[3], m.text[13], m.text[10])
    IN Groups(RegexMatch(TRIP_NEW_FORMAT, line))

\* line.match(PATTERNS.TRIP_OLD_FORMAT) with its groups 1, 2, 3, 4, 5
MatchOld(line) ==
    LET Groups(m) == IF ~m.matched THEN NoMatch
                     ELSE Match(m.text[1], m.text[3], m.text[6], m.text[12], m.text[15])
    IN Groups(RegexMatch(TRIP_OLD_FORMAT, line))

\* TRIP_TIME_PAIR_PATTERN = /\d{1,2}:\d{2}.*\d{1,2}:\d{2}/
TRIP_TIME_PAIR_PATTERN(s) ==
    \E i \in 1..Len(s) : \E h \in {1, 2} :
        /\ TimeAt(s, i, h)
        /\ \E j \in (i + h + 3)..Len(s) : \E g \in {1, 2} :
              /\ TimeAt(s, j, g)
              /\ \A c \in (i + h + 3)..(j - 1) : IsAnyChar(s[c])

\* What the patterns find on a line of text
TripLineOf(text) == TripLine(MatchNew(text), MatchOld(text), TRIP_TIME_PAIR_PATTERN(text))

isValidTripLine(line) ==
    LET Decide(newMatch) ==
            IF newMatch.matched /\ trim(newMatch.toStop) # Uhr /\ trim(newMatch.fromStop) # Uhr
            THEN TRUE
            ELSE MatchOld(line).matched
    IN Decide(MatchNew(line))

MAX_LINES_TO_COMBINE == 3

\* tryMergeWithNext from the given offset on; rawLines is indexed from 1 here
RECURSIVE TryMergeFrom(_, _, _, _, _)
TryMergeFrom(rawLines, startIndex, offset, combined, maxLinesToCombine) ==
    IF ~(offset <= maxLinesToCombine /\ startIndex + offset <= Len(rawLines))
    THEN [isNull |-> TRUE, combinedLine |-> <<>>, linesConsumed |-> 0]
    ELSE LET Test(next) ==
                 IF isValidTripLine(next)
                 THEN [isNull |-> FALSE, combinedLine |-> next, linesConsumed |-> offset + 1]
                 ELSE TryMergeFrom(rawLines, startIndex, offset + 1, next, maxLinesToCombine)
         IN Test(trim(combined \o <<" ">> \o rawLines[startIndex + offset]))

\* A merge that keeps combining until the lines run out
tryMergeWithNextUnbounded(rawLines, startIndex, maxLinesToCombine) ==
    TryMergeFrom(rawLines, startIndex, 1, rawLines[startIndex], Len(rawLines))

tryMergeWithNext(rawLines, startIndex, maxLinesToCombine) ==
    TryMergeFrom(rawLines, startIndex, 1, rawLines[startIndex], maxLinesToCombine)

\* The while loop of mergeTripLines from index i on.  Besides mergedLines the
\* result lists what each iteration did: the index it was at, how many lines
\* it consumed and whether it pushed a candidate.
RECURSIVE MergeFrom(_, _, _)
MergeFrom(rawLines, i, acc) ==
    IF i > Len(rawLines) THEN acc
    ELSE IF isValidTripLine(rawLines[i])
    THEN MergeFrom(rawLines, i + 1,
                   [mergedLines |-> Append(acc.mergedLines, rawLines[i]),
                    steps |-> Append(acc.steps, [index |-> i, linesConsumed |-> 1,
                                                 pushed |-> TRUE,
                                                 line |-> rawLines[i]])])
    ELSE LET Use(mergeResult) ==
                 IF ~mergeResult.isNull
                 THEN MergeFrom(rawLines, i + mergeResult.linesConsumed,
                                [mergedLines |-> Append(acc.mergedLines,
                                                        mergeResult.combinedLine),
                                 steps |-> Append(acc.steps,
                                                  [index |-> i,
                                                   linesConsumed |-> mergeResult.linesConsumed,
                                                   pushed |-> TRUE,
                                                   line |-> mergeResult.combinedLine])])
                 ELSE MergeFrom(rawLines, i + 1,
                                [acc EXCEPT !.steps =
                                    Append(@, [index |-> i, linesConsumed |-> 1,
                                               pushed |-> FALSE, line |-> <<>>])])
         IN Use(tryMergeWithNext(rawLines, i, MAX_LINES_TO_COMBINE))

MergeRun(rawLines) == MergeFrom(rawLines, 1, [mergedLines |-> <<>>, steps |-> <<>>])

mergeTripLines(rawLines) == MergeRun(rawLines).mergedLines

\* U+00A0 and the entity that stands for it
Nbsp == "NBSP"
NbspEntity == <<"&", "n", "b", "s", "p", ";">>
\* \s of a regular expression, for the characters of the model
IsWhiteSpace(c) == c \in {" ", "\n", Nbsp}

\* MARKERS.TRIPS_START and MARKERS.TRIPS_END
TRIPS_START ==
    <<
      <<"s", "i", "n", "d", " ", "f", "o", "l", "g", "e", "n", "d", "e", " ", "F", "a",
        "h", "r", "t", "e", "n", " ", "v", "o", "n", " ", "e", "i", "n", "e", "m", " ",
        "(", "T", "e", "i", "l", "-", ")", "A", "u", "s", "f", "a", "l", "l", " ", "b",
        "e", "t", "r", "o", "f", "f", "e", "n", ":">>,
      <<"s", "i", "n", "d", " ", "f", "o", "l", "g", "e", "n", "d", "e", " ", "F", "a",
        "h", "r", "t", "e", "n", " ", "b", "e", "t", "r", "o", "f", "f", "e", "n", ":">>,
      <<"B", "e", "t", "r", "o", "f", "f", "e", "n", "e", " ", "F", "a", "h", "r", "t",
        "e", "n", ":">>
    >>
TRIPS_END ==
    <<"O", "b", " ", "d", "e", "i", "n", "e", " ", "V", "e", "r", "b", "i", "n", "d",
      "u", "n", "g">>
ZugWird ==
    <<"(", "Z", "u", "g", " ", "w", "i", "r", "d">>
InRichtung ==
    <<"i", "n", " ", "R", "i", "c", "h", "t", "u", "n", "g">>
Eingesetzt ==
    <<"e", "i", "n", "g", "e", "s", "e", "t", "z", "t", ")">>

\* String.prototype.startsWith, includes and split('\n')
startsWith(s, prefix) == Len(s) >= Len(prefix) /\ SubSeq(s, 1, Len(prefix)) = prefix
includes(s, sub) ==
    \E i \in 1..(Len(s) - Len(sub) + 1) : SubSeq(s, i, i + Len(sub) - 1) = sub
split(text) ==
    LET breaks == {i \in 1..Len(text) : text[i] = "\n"}
        Break(k) == CHOOSE i \in breaks : Cardinality({j \in breaks : j < i}) = k - 1
        First(k) == IF k = 1 THEN 1 ELSE Break(k - 1) + 1
        Last(k) == IF k = Cardinality(breaks) + 1 THEN Len(text) ELSE Break(k) - 1
    IN [k \in 1..(Cardinality(breaks) + 1) |-> SubSeq(text, First(k), Last(k))]

\* .replace(/&nbsp;/gi, ' ').replace(/\u00a0/g, ' ').trim(); trim removes
\* every white space character, of which a physical line can hold blanks and,
\* before the replacement, U+00A0
ReplaceNbsp(s) ==
    LET lower == toLowerCase(s)
        width == Len(NbspEntity)
        \* where an entity begins (entities cannot overlap), and the
        \* positions that are not the rest of an entity
        begins == {i \in 1..(Len(s) - width + 1) : SubSeq(lower, i, i + width - 1) = NbspEntity}
        kept == SelectSeq([i \in 1..Len(s) |-> i],
                          LAMBDA i : ~\E b \in begins : b < i /\ i < b + width)
    IN [k \in 1..Len(kept) |->
          IF kept[k] \in begins \/ s[kept[k]] = Nbsp THEN " " ELSE s[kept[k]]]

NormalizeCandidate(line) == trim(ReplaceNbsp(line))

\* The filter of buildTripCandidateLines, on a normalised line
KeepCandidate(line) ==
    /\ line # <<>>
    /\ ~startsWith(line, TRIPS_END)
    /\ ~startsWith(line, ZugWird)
    /\ line # NbspEntity
    /\ ~(includes(line, InRichtung) /\ includes(line, Eingesetzt))

\* Whether buildTripCandidateLines keeps the j-th physical line
KeepsLine(physical, j) == KeepCandidate(NormalizeCandidate(physical[j]))

\* buildTripCandidateLines: the kept lines, and for each the number of the
\* physical line of the text it was
CandidateOrigins(text) ==
    LET physical == split(text)
    IN SelectSeq([j \in 1..Len(physical) |-> j], LAMBDA j : KeepsLine(physical, j))
buildTripCandidateLines(text) ==
    LET physical == split(text)
        origins == CandidateOrigins(text)
    IN [k \in 1..Len(origins) |-> NormalizeCandidate(physical[origins[k]])]

\* new RegExp(marker with its blanks replaced by \s+) at position p of text:
\* the position after the match, 0 if there is none
RECURSIVE MarkerEnd(_, _, _)
MarkerEnd(marker, text, p) ==
    IF marker = <<>> THEN p
    ELSE IF p > Len(text) THEN 0
    ELSE IF Head(marker) = " "
    THEN IF ~IsWhiteSpace(text[p]) THEN 0
         ELSE LET after == {q \in (p + 1)..(Len(text) + 1) :
                              \A k \in p..(q - 1) : IsWhiteSpace(text[k])}
                  q == CHOOSE q \in after : \A r \in after : r <= q
              IN MarkerEnd(TrimStart(marker), text, q)
    ELSE IF text[p] = Head(marker) THEN MarkerEnd(Tail(marker), text, p + 1)
    ELSE 0

\* text.match(markerRegex): match.index! + match[0].length of the first
\* match, 0 if there is none (both counted from 1 here)
MarkerMatch(marker, text) ==
    LET starts == {p \in 1..Len(text) : MarkerEnd(marker, text, p) # 0}
    IN IF starts = {} THEN 0
       ELSE MarkerEnd(marker, text, CHOOSE p \in starts : \A r \in starts : p <= r)

\* parseFromSection, with the section it was given
parseFromSection(section) ==
    LET rawLines == buildTripCandidateLines(section)
        run == MergeRun(rawLines)
    IN [section |-> section, rawLines |-> rawLines,
        mergedLines |-> run.mergedLines, steps |-> run.steps]

\* extractTripLines: the first start marker whose section gives a trip line,
\* else the whole text
RECURSIVE ExtractFrom(_, _)
ExtractFrom(text, m) ==
    IF m > Len(TRIPS_START)
    THEN [parseFromSection(text) EXCEPT !.section = text] @@ [marker |-> 0]
    ELSE LET startIdx == MarkerMatch(TRIPS_START[m], text)
             Try(parsedSection) ==
                 IF parsedSection.mergedLines # <<>>
                 THEN parsedSection @@ [marker |-> m]
                 ELSE ExtractFrom(text, m + 1)
         IN IF startIdx = 0 THEN ExtractFrom(text, m + 1)
            ELSE Try(parseFromSection(SubSeq(text, startIdx, Len(text))))

extractTripLines(text) == ExtractFrom(text, 1)

(***************************************************************************)
(* Observation merge (train-line-observations.ts)                          *)
(***************************************************************************)
\* A file src/train-line-definitions/data/<slug>.json: absent, unparseable,
\* or a JSON object; {line, trainNumbers} is the object the merge writes
NoObservationFile == NoDefinitionFile
BrokenObservationFile == BrokenDefinitionFile
LineDefinition(line, trainNumbers) == TrainLineDefinition(line, trainNumbers, FALSE, <<>>)

ObsFileAt(files, name) == IF name \in DOMAIN files THEN files[name] ELSE NoObservationFile

IsSlugChar(c) == IsLower(c) \/ IsDigit(c)

\* .replace(/[^a-z0-9]+/g, '-')
RECURSIVE ReplaceNonSlugRuns(_, _)
ReplaceNonSlugRuns(s, inRun) ==
    IF s = <<>> THEN <<>>
    ELSE IF IsSlugChar(Head(s)) THEN <<Head(s)>> \o ReplaceNonSlugRuns(Tail(s), FALSE)
    ELSE IF inRun THEN ReplaceNonSlugRuns(Tail(s), TRUE)
    ELSE <<"-">> \o ReplaceNonSlugRuns(Tail(s), TRUE)

\* .replace(/^-+|-+$/g, '')
StripDashes(s) ==
    LET from == IF s # <<>> /\ Head(s) = "-" THEN 2 ELSE 1
        to == IF s # <<>> /\ s[Len(s)] = "-" THEN Len(s) - 1 ELSE Len(s)
    IN SubSeq(s, from, to)

slugifyLineId(line) == StripDashes(ReplaceNonSlugRuns(toLowerCase(trim(line)), FALSE))

\* mergeTrainNumbers; localeCompare(b, 'de', {numeric: true}) orders strings
\* of digits by their value
\* new Set(values), as the sequence of its elements in insertion order
RECURSIVE NewSet(_, _)
NewSet(values, acc) ==
    IF values = <<>> THEN acc
    ELSE NewSet(Tail(values),
                IF \E i \in 1..Len(acc) : acc[i] = Head(values) THEN acc
                ELSE Append(acc, Head(values)))

mergeTrainNumbers(existing, newNumbers) ==
    LET mergedSet == NewSet(existing, <<>>)
        newlyAdded == SelectSeq(newNumbers,
                                LAMBDA n : \A i \in 1..Len(mergedSet) : mergedSet[i] # n)
    IN [merged |-> SortNumeric(mergedSet \o newlyAdded), newlyAdded |-> newlyAdded]

\* The index of the next observed line the loop does not skip at once, 0 if none
NextObservation(observations, from) ==
    LET candidates == {j \in from..Len(observations) :
                          /\ observations[j].trainNumbers # <<>>
                          /\ slugifyLineId(observations[j].line) # <<>>}
    IN IF candidates = {} THEN 0
       ELSE CHOOSE j \in candidates : \A k \in candidates : j <= k

\* The loop body once the existing definition is loaded (null: it could not be
\* read): the merged train numbers to write, or nothing to write
AfterLoad(observation, isNull, existing) ==
    IF isNull THEN [write |-> FALSE, merged |-> <<>>]
    ELSE IF existing.line # <<>> /\ existing.line # observation.line
    THEN [write |-> FALSE, merged |-> <<>>]
    ELSE LET m == mergeTrainNumbers(existing.trainNumbers, observation.trainNumbers)
         IN [write |-> m.newlyAdded # <<>>, merged |-> m.merged]

\* The module-level constants of train-lines.ts, evaluated once at load
BuildKnowledgeBase(files) ==
    LET loaded == loadDefinitions(files)
    IN [ok |-> loaded.ok,
        definitions |-> IF loaded.ok THEN loaded.definitions ELSE <<>>,
        mapping |-> IF loaded.ok THEN buildTrainLineMapping(loaded.definitions)
                    ELSE EmptyMapping]

(***************************************************************************)
(* Inputs of the model                                                     *)
(***************************************************************************)
S1 == <<"S", "1">>
S4 == <<"S", "4">>
S5 == <<"S", "5">>
Train1 == <<"1">>
Train2 == <<"2">>
Train10 == <<"1", "0">>
Train15 == <<"1", "5">>
Train19 == <<"1", "9">>
Train20 == <<"2", "0">>
Train29 == <<"2", "9">>
Train99 == <<"9", "9">>

DefinitionNames == {toLowerCase(S1), toLowerCase(S4), toLowerCase(S5)}

EmptyDefinitionDisk == [n \in DefinitionNames |-> NoDefinitionFile]

\* s1.json lists 15 and 20, s4.json lists 10, s5.json lists 15 as well;
\* S1 and S5 declare each other as connected lines.
DiskConnected ==
    [n \in DefinitionNames |->
        CASE n = toLowerCase(S1) -> TrainLineDefinition(S1, <<Train15, Train20>>, TRUE, <<S5>>)
          [] n = toLowerCase(S4) -> TrainLineDefinition(S4, <<Train10>>, FALSE, <<>>)
          [] n = toLowerCase(S5) -> TrainLineDefinition(S5, <<Train15>>, TRUE, <<S1>>)]

\* The same train numbers, but no line declares a connection
DiskUnconnected ==
    [n \in DefinitionNames |->
        [DiskConnected[n] EXCEPT !.hasConnectedLines = FALSE, !.connectedLines = <<>>]]

\* s5.json cannot be parsed
DiskBroken == [DiskConnected EXCEPT ![toLowerCase(S5)] = BrokenDefinitionFile]

\* s4.json is missing, so nothing is known about train numbers 1x
DiskWithoutS4 == [DiskConnected EXCEPT ![toLowerCase(S4)] = NoDefinitionFile]

\* s5.json spells its line in lower case
DiskLowerCase ==
    [DiskConnected EXCEPT ![toLowerCase(S5)] =
        TrainLineDefinition(toLowerCase(S5), <<Train15>>, TRUE, <<S1>>)]

\* s4.json also lists a train number of one character
DiskOneCharacter ==
    [DiskConnected EXCEPT ![toLowerCase(S4)] =
        TrainLineDefinition(S4, <<Train2, Train10>>, FALSE, <<>>)]

DefinitionDisks ==
    {DiskConnected, DiskUnconnected, DiskBroken, DiskWithoutS4, DiskLowerCase,
     DiskOneCharacter}

DeclaredLines ==
    { S5,
      <<" ", "S", "5", " ">>,
      <<>>,
      <<" ", " ">>,
      DEFAULT_LINE,
      <<"S", "1", " ", "u", "n", "d", " ", "S", "1", "1">>,
      <<"S", "1", " ", "U", "N", "D", " ", "S", "5">>,
      <<"S", "1", ",", "S", "5">>,
      <<"S", "1", "/", "S", "5">>,
      <<"S", "1", "&", "S", "5">>,
      <<"S", "1", "-", "S", "1", "1">>,
      <<"S", "1", " ", "-", " ", "5">>,
      <<"S", "u", "n", "d", "1">>,
      <<"E", "-", "S", "5">> }

MentionedLineSets == {<<>>, <<S5>>, <<S4>>, <<S1, S4>>, <<S1, S5>>, <<S5, S1>>}

TrainNumbers == {Train1, Train10, Train15, Train19, Train29, Train99}

(***************************************************************************)
(* The store on its own: saveCancellations called repeatedly               *)
(***************************************************************************)
MaxTrips == 2

Date2024 == <<"2", "0", "2", "4", "-", "0", "5", "-", "1", "5">>
Date2025 == <<"2", "0", "2", "5", "-", "0", "1", "-", "0", "2">>
StandA == <<"a">>
StandB == <<"b">>
Time0838 == <<"8", ":", "3", "8">>
Time1007 == <<"1", "0", ":", "0", "7">>

RecBase == Cancellation(S5, Date2024, StandA, Train10, Time0838)
RecSameKey == Cancellation(S5, Date2024, StandB, Train10, Time0838)
RecEarlier == Cancellation(S5, Date2024, StandA, Train19, Time1007)
RecOther == Cancellation(S1, Date2025, StandA, Train10, Time0838)

\* Two records of one key that differ in another field, a record that sorts
\* before them, and a record of another year and line.
StoreRecords == {RecBase, RecSameKey, RecEarlier, RecOther}

BucketPaths == {join(DATA_DIR, SliceTo(r.date, 4), r.line \o JsonSuffix) : r \in StoreRecords}

TripLists == UNION {[1..n -> StoreRecords] : n \in 0..MaxTrips}

PathBase == join(DATA_DIR, SliceTo(Date2024, 4), S5 \o JsonSuffix)

\* What the disk may hold before the first call: nothing, an unreadable
\* file, or a hand-edited file (unsorted, or with two entries of one key).
InitialDisks ==
    { [p \in BucketPaths |-> AbsentFile],
      [p \in BucketPaths |-> IF p = PathBase THEN CorruptFile ELSE AbsentFile],
      [p \in BucketPaths |-> IF p = PathBase THEN ArrayFile(<<RecBase, RecEarlier>>)
                             ELSE AbsentFile],
      [p \in BucketPaths |-> IF p = PathBase THEN ArrayFile(<<RecBase, RecSameKey>>)
                             ELSE AbsentFile] }

\* No writeFile is under way
NoWrite ==
    [state |-> "idle", path |-> <<>>, previous |-> AbsentFile, content |-> AbsentFile,
     written |-> 0]

\* What the last call logged and did, for the claims
NoStats ==
    [added |-> 0, duplicates |-> 0, written |-> {}, keys |-> {}, loads |-> <<>>,
     writes |-> <<>>]
StatsOf(res) ==
    [added |-> res.added, duplicates |-> res.duplicates, written |-> res.written,
     keys |-> res.keys, loads |-> res.loads, writes |-> res.writes]

StoreStart(disk) ==
    /\ bucketFiles = disk
    /\ prevBucketFiles = bucketFiles
    /\ lastTrips = <<>>
    /\ lastStats = NoStats
    /\ saved = FALSE
    /\ repeated = FALSE
    /\ writing = NoWrite

\* Nothing of the batch driver is running
NoRun ==
    /\ obsFiles = <<>>
    /\ items = <<>>
    /\ pc = <<>>
    /\ frame = <<>>
    /\ settled = <<>>
    /\ parsed = <<>>
    /\ mainPc = "idle"
    /\ collected = [cancellations |-> <<>>, parseErrors |-> <<>>]
    /\ exitCode = -1
    /\ history = [fallbackWritten |-> {}, obsPersisted |-> {}, obsAtStart |-> <<>>,
                  defAtStart |-> <<>>]

\* No page is being parsed twice
NoTextCall ==
    /\ page = <<>>
    /\ clock = 0
    /\ parses = <<>>

NoResolveCall ==
    /\ resolveIn = [trainNumber |-> <<>>, line |-> <<>>, mentionedLines |-> <<>>,
                    lineMentionCount |-> 0, hasSink |-> FALSE]
    /\ resolveOut = [made |-> FALSE]

StoreInit ==
    /\ NoTextCall
    /\ defFiles = EmptyDefinitionDisk
    /\ loadedKb = BuildKnowledgeBase(defFiles)
    /\ NoResolveCall
    /\ NoRun
    /\ bucketFiles \in InitialDisks
    /\ prevBucketFiles = bucketFiles
    /\ lastTrips = <<>>
    /\ lastStats = NoStats
    /\ saved = FALSE
    /\ repeated = FALSE
    /\ writing = NoWrite

SaveCancellations(trips) ==
    LET Then(res) ==
            /\ bucketFiles' \in res.outcomes
            /\ prevBucketFiles' = bucketFiles
            /\ lastTrips' = trips
            /\ lastStats' = StatsOf(res)
            /\ saved' = TRUE
            /\ repeated' = (saved /\ trips = lastTrips)
            /\ writing' = writing
            /\ UNCHANGED <<textVars, kbVars, resolveVars, runVars>>
    IN Then(saveCancellations(bucketFiles, trips))

StoreNext == \E trips \in TripLists : SaveCancellations(trips)

SpecStore == StoreInit /\ [][StoreNext]_vars

(***************************************************************************)
(* The write of one bucket file, step by step: writeBucket awaits           *)
(* writeJsonFile, which awaits fs.promises.writeFile(path, content): the   *)
(* file is opened with flag 'w', which truncates it, and the text is       *)
(* written to it in one or more write calls.  The process can end between  *)
(* any two of them, and a later run starts from the files as they are.     *)
(***************************************************************************)
WriteInit == StoreInit

\* writeBucket up to the open of writeFile: the entries are sorted, the file
\* is created or truncated
WriteJsonFileOpen(trips) ==
    /\ writing.state # "open"
    /\ LET Then(buckets) ==
               \E key \in DOMAIN buckets :
                  LET path == buckets[key].filePath
                      content == writeBucket(buckets[key])
                  IN /\ writing' = [state |-> "open", path |-> path,
                                    previous |-> bucketFiles[path],
                                    content |-> content, written |-> 0]
                     /\ bucketFiles' = [bucketFiles EXCEPT ![path] =
                                           PartialFile(content.entries, 0)]
       IN Then(MergeTrips(<<>>, bucketFiles, trips))
    /\ UNCHANGED <<prevBucketFiles, lastTrips, lastStats, saved, repeated>>
    /\ UNCHANGED <<textVars, kbVars, resolveVars, runVars>>

\* One write call: the text up to some later position is in the file; the
\* promise resolves when all of it is
WriteJsonFileData(upTo) ==
    /\ writing.state = "open"
    /\ upTo > writing.written
    /\ upTo <= Len(writing.content.entries)
    /\ bucketFiles' = [bucketFiles EXCEPT ![writing.path] =
                          IF upTo = Len(writing.content.entries) THEN writing.content
                          ELSE PartialFile(writing.content.entries, upTo)]
    /\ writing' = [writing EXCEPT !.written = upTo,
                                  !.state = IF upTo = Len(writing.content.entries)
                                            THEN "idle" ELSE "open"]
    /\ UNCHANGED <<prevBucketFiles, lastTrips, lastStats, saved, repeated>>
    /\ UNCHANGED <<textVars, kbVars, resolveVars, runVars>>

\* The process ends while the write is under way
ProcessEnds ==
    /\ writing.state = "open"
    /\ writing' = [writing EXCEPT !.state = "ended"]
    /\ UNCHANGED <<bucketFiles, prevBucketFiles, lastTrips, lastStats, saved, repeated>>
    /\ UNCHANGED <<textVars, kbVars, resolveVars, runVars>>

WriteNext ==
    \/ \E trips \in TripLists : WriteJsonFileOpen(trips)
    \/ \E upTo \in 1..MaxTrips + 2 : WriteJsonFileData(upTo)
    \/ ProcessEnds

SpecWrite == WriteInit /\ [][WriteNext]_vars

(***************************************************************************)
(* resolveLineForTrip on its own: one call on a freshly loaded knowledge   *)
(* base, for every input                                                   *)
(***************************************************************************)
ResolveInit ==
    /\ NoTextCall
    /\ StoreStart([p \in {} |-> AbsentFile])
    /\ defFiles \in DefinitionDisks
    /\ loadedKb = BuildKnowledgeBase(defFiles)
    /\ resolveIn \in {[trainNumber |-> t, line |-> l, mentionedLines |-> m,
                       lineMentionCount |-> Len(m), hasSink |-> h] :
                         t \in TrainNumbers, l \in DeclaredLines,
                         m \in MentionedLineSets, h \in BOOLEAN}
    /\ resolveOut = [made |-> FALSE]
    /\ NoRun

\* The call; import of train-lines.ts fails when a definition cannot be parsed
ResolveLineForTrip ==
    /\ loadedKb.ok
    /\ ~resolveOut.made
    /\ LET out == resolveLineForTrip(loadedKb, defFiles, resolveIn.trainNumber, resolveIn)
       IN /\ resolveOut' = [made |-> TRUE, threw |-> out.threw, error |-> out.error,
                            line |-> out.line, via |-> out.via, observed |-> out.observed,
                            lookups |-> out.lookups, filesBefore |-> defFiles]
          /\ defFiles' = out.files
    /\ UNCHANGED <<textVars, storeVars, loadedKb, resolveIn, runVars>>

ResolveNext == ResolveLineForTrip

SpecResolve == ResolveInit /\ [][ResolveNext]_vars

(***************************************************************************)
(* parseDetailPage on the text of one page, called more than once while    *)
(* the clock runs                                                          *)
(***************************************************************************)
MaxParses == 2

LineNew ==
    <<"1", "5", " ", "8", ":", "3", "8", " ", "A", " ", "-", " ", "9", ":", "5", "9",
      " ", "B">>
LineNewUhr ==
    <<"1", "5", " ", "8", ":", "3", "8", " ", "U", "h", "r", " ", "A", " ", "-", " ",
      "9", ":", "5", "9", " ", "U", "h", "r", " ", "B">>
LineOld ==
    <<"2", "0", " ", "A", " ", "(", "8", ":", "3", "8", ")", " ", "-", " ", "B", " ",
      "(", "9", ":", "5", "9", ")">>
\* The departure stop is missing: two blanks between the time and the dash
LineNoFromStop ==
    <<"1", "5", " ", "8", ":", "3", "8", " ", "U", "h", "r", " ", " ", "-", " ", "9",
      ":", "5", "9", " ", "U", "h", "r", " ", "B">>
\* The arrival stop is missing in the old format
LineNoToStop ==
    <<"2", "0", " ", "A", " ", "(", "8", ":", "3", "8", ")", " ", "-", " ", " ", "(",
      "9", ":", "5", "9", ")">>
\* Times without stops
LineNoStops ==
    <<"1", "5", " ", "8", ":", "3", "8", " ", "U", "h", "r", " ", "-", " ", "9", ":",
      "5", "9", " ", "U", "h", "r">>
LineNoise == <<"x">>
Frag15 == <<"1", "5">>
Frag20 == <<"2", "0">>
FragFromTimeStop == <<"8", ":", "3", "8", " ", "A">>
FragTrainTimeStop == <<"1", "5", " ", "8", ":", "3", "8", " ", "A">>
FragDash == <<"-">>
FragToTime == <<"9", ":", "5", "9">>
FragToTimeStop == <<"9", ":", "5", "9", " ", "B">>
FragStopB == <<"B">>
FragStopC == <<"C">>
StandDate == <<"0", "2", ".", "0", "1", ".", "2", "0", "2", "5">>
StandTime == <<"2", "3", ":", "5", "9", ":", "5", "8">>
StandTimeAlt == <<"2", "3", ":", "5", "9">>

\* What text.match(PATTERNS.STAND) and text.match(PATTERNS.STAND_ALT) find
NoStandMatch == [kind |-> "none", dateStr |-> <<>>, timeStr |-> <<>>]
StandMatch(dateStr, timeStr) == [kind |-> "stand", dateStr |-> dateStr, timeStr |-> timeStr]
StandAltMatch(dateStr, timeStr) == [kind |-> "alt", dateStr |-> dateStr, timeStr |-> timeStr]

\* A detail page after stripHtml: what extractLine and extractMentionedLines
\* find, the Stand the patterns match, and the text that extractTripLines
\* is given
Page(line, mentionedLines, standMatch, text) ==
    [line |-> line, mentionedLines |-> mentionedLines, standMatch |-> standMatch,
     text |-> text]

\* parseGermanDateTime for a valid date "DD.MM.YYYY" and time "HH:MM:SS" in a
\* process whose time zone is UTC: new Date(year, month - 1, day, hh, mm,
\* ss).toISOString()
parseGermanDateTime(dateStr, timeStr) ==
    SubSeq(dateStr, 7, 10) \o <<"-">> \o SubSeq(dateStr, 4, 5) \o <<"-">>
      \o SubSeq(dateStr, 1, 2) \o <<"T">> \o timeStr \o <<".", "0", "0", "0", "Z">>

\* extractStand; now is new Date().toISOString() at the time of the call
extractStand(standMatch, now) ==
    IF standMatch.kind = "stand" /\ standMatch.dateStr # <<>> /\ standMatch.timeStr # <<>>
    THEN LET standIso == parseGermanDateTime(standMatch.dateStr, standMatch.timeStr)
         IN [standIso |-> standIso, dateForTrips |-> SliceTo(standIso, 10)]
    ELSE IF standMatch.kind = "alt" /\ standMatch.dateStr # <<>> /\ standMatch.timeStr # <<>>
    THEN LET standIso == parseGermanDateTime(standMatch.dateStr,
                                             standMatch.timeStr \o <<":", "0", "0">>)
         IN [standIso |-> standIso, dateForTrips |-> SliceTo(standIso, 10)]
    ELSE [standIso |-> now, dateForTrips |-> SliceTo(now, 10)]

\* parseDetailPage from the text on: the metadata, the trip lines of
\* extractTripLines (merged from the physical lines of the section), then
\* the loop
parsePage(kb, files, pageText, url, now) ==
    LET Parse(stand, candidates) ==
            [candidates |-> candidates,
             out |-> parseDetailPage(kb, files,
                                     Article(pageText.line, pageText.mentionedLines,
                                             stand.dateForTrips, stand.standIso,
                                             [k \in 1..Len(candidates.mergedLines) |->
                                                 TripLineOf(candidates.mergedLines[k])]),
                                     url)]
    IN Parse(extractStand(pageText.standMatch, now), extractTripLines(pageText.text))

\* The instants the clock shows, in order: two of one day and one of the next
Instant1 ==
    <<"2", "0", "2", "5", "-", "0", "1", "-", "0", "2", "T", "2", "3", ":", "5", "9",
      ":", "5", "9", ".", "0", "0", "0", "Z">>
Instant2 ==
    <<"2", "0", "2", "5", "-", "0", "1", "-", "0", "3", "T", "0", "0", ":", "0", "0",
      ":", "0", "0", ".", "0", "0", "0", "Z">>
Instants == <<Instant1, Instant2>>

\* The physical lines of the trip section: whole trips in both formats, lines
\* with a stop missing, trips split across 3, 4 and 5 lines, and a lone
\* train number followed by whole trips
RawLineLists ==
    { <<LineNew>>,
      <<Frag15, LineOld>>,
      <<Frag15, LineNew, LineOld>>,
      <<LineNewUhr, LineOld>>,
      <<LineNoise, LineOld>>,
      <<LineNoFromStop>>,
      <<LineNoToStop>>,
      <<LineNoStops>>,
      <<LineNoise>>,
      <<FragTrainTimeStop, FragDash, FragToTimeStop>>,
      <<LineNoise, FragTrainTimeStop, FragDash, FragToTimeStop, LineOld>>,
      <<Frag15, FragFromTimeStop, FragDash, FragToTimeStop>>,
      <<Frag15, FragFromTimeStop, FragDash, FragToTime, FragStopB>>,
      <<Frag15, FragFromTimeStop, FragDash, FragToTimeStop, FragStopC>>,
      <<FragTrainTimeStop, FragDash, FragToTimeStop,
        Frag20, FragFromTimeStop, FragDash, FragToTime, FragStopB>> }

StandMatches ==
    {StandMatch(StandDate, StandTime), StandAltMatch(StandDate, StandTimeAlt), NoStandMatch}

\* The lines of a text, one after the other
RECURSIVE JoinLines(_)
JoinLines(lines) ==
    IF lines = <<>> THEN <<>>
    ELSE IF Len(lines) = 1 THEN Head(lines)
    ELSE Head(lines) \o <<"\n">> \o JoinLines(Tail(lines))

\* A page text: the start marker "Betroffene Fahrten:", the lines of the trip
\* section, the end marker
SectionText(rawLines) == JoinLines(<<TRIPS_START[3]>> \o rawLines \o <<TRIPS_END>>)

\* Texts with lines after the end marker: a whole trip, and the rest of a
\* trip that began before it; and a text whose start marker is spread over
\* two lines, with boilerplate and U+00A0 among the trips
EndMarkerLine ==
    TRIPS_END \o <<" ", "i", "s", "t">>
TextTripAfterEnd ==
    JoinLines(<<TRIPS_START[3], LineNew, EndMarkerLine, LineOld>>)
TextMergeAcrossEnd ==
    JoinLines(<<TRIPS_START[3], FragTrainTimeStop, FragDash, EndMarkerLine, FragToTimeStop>>)
TextBoilerplate ==
    JoinLines(<<LineNoise,
                <<"E", "s", " ", "s", "i", "n", "d", " ", "f", "o", "l", "g", "e", "n", "d", "e", " ", "F", "a", "h", "r", "t", "e", "n">>,
                <<"b", "e", "t", "r", "o", "f", "f", "e", "n", ":", " ">> \o LineNew \o <<Nbsp>>,
                ZugWird \o <<" ", "x", ")">>,
                NbspEntity,
                <<Nbsp>> \o LineOld,
                EndMarkerLine>>)
MarkerTexts == {TextTripAfterEnd, TextMergeAcrossEnd, TextBoilerplate}

Pages ==
    {Page(S1, <<S1>>, m, SectionText(l)) : m \in StandMatches, l \in RawLineLists}
    \cup {Page(S1, <<S1>>, StandMatch(StandDate, StandTime), t) : t \in MarkerTexts}

PageUrl == <<"p">>

TextInit ==
    /\ StoreStart([p \in {} |-> AbsentFile])
    /\ NoResolveCall
    /\ NoRun
    /\ defFiles = DiskConnected
    /\ loadedKb = BuildKnowledgeBase(defFiles)
    /\ page \in Pages
    /\ clock = 1
    /\ parses = <<>>

\* Time passes
Tick ==
    /\ clock < Len(Instants)
    /\ clock' = clock + 1
    /\ UNCHANGED <<storeVars, kbVars, resolveVars, runVars, page, parses>>

\* One call of parseDetailPage on the page
ParseDetailPage ==
    /\ Len(parses) < MaxParses
    /\ LET Then(res) ==
               /\ parses' = Append(parses,
                                   [threw |-> res.out.threw, error |-> res.out.error,
                                    trips |-> res.out.trips,
                                    marker |-> res.candidates.marker,
                                    section |-> res.candidates.section,
                                    rawLines |-> res.candidates.rawLines,
                                    mergedLines |-> res.candidates.mergedLines,
                                    steps |-> res.candidates.steps,
                                    at |-> clock])
               /\ defFiles' = res.out.files
       IN Then(parsePage(loadedKb, defFiles, page, PageUrl, Instants[clock]))
    /\ UNCHANGED <<storeVars, loadedKb, resolveVars, runVars, page, clock>>

TextNext == Tick \/ ParseDetailPage

SpecText == TextInit /\ [][TextNext]_vars


(***************************************************************************)
(* One run of index.ts: the items of the feed are fetched and parsed       *)
(* concurrently (workflow.ts), then the records are stored and the parse   *)
(* errors reported                                                         *)
(***************************************************************************)
MaxItems == 2

Time0959 == <<"9", ":", "5", "9">>
StopA == <<"A">>
StopB == <<" ", "B">>

TripNew(trainNumber, fromTime) ==
    TripLine(Match(trainNumber, StopA, fromTime, StopB, Time0959), NoMatch, TRUE)
TripOld(trainNumber, fromTime) ==
    TripLine(NoMatch, Match(trainNumber, StopA, fromTime, StopB, Time0959), TRUE)
\* "<trainNumber> <time> Uhr - <time> Uhr": the new format with the stops missing
TripIncomplete(trainNumber, fromTime) ==
    TripLine(Match(trainNumber, Uhr, fromTime, Uhr, Time0959), NoMatch, TRUE)
NoiseLine == TripLine(NoMatch, NoMatch, FALSE)

S1undS4 == <<"S", "1", " ", "u", "n", "d", " ", "S", "4">>

\* Articles of one line
ArtSingle15 == Article(S1, <<S1>>, Date2025, StandA, <<TripNew(Train15, Time0838)>>)
ArtSingle20 ==
    Article(S1, <<S1>>, Date2025, StandA, <<NoiseLine, TripOld(Train20, Time1007)>>)
\* An article of one line with a train number that no definition lists
ArtSingleUnknown == Article(S1, <<S1>>, Date2025, StandA, <<TripNew(Train99, Time1007)>>)
\* Articles of two lines: a known train number, a known one followed by one that
\* only shares its prefix, and an unknown one
ArtMultiExact ==
    Article(S1undS4, <<S1, S4>>, Date2025, StandA, <<TripNew(Train10, Time0838)>>)
ArtMultiFallback ==
    Article(S1undS4, <<S1, S4>>, Date2025, StandA,
            <<TripNew(Train10, Time0838), TripNew(Train19, Time1007)>>)
ArtMultiUnknown ==
    Article(S1undS4, <<S1, S4>>, Date2025, StandA, <<TripNew(Train99, Time0838)>>)
\* Articles without a parseable trip: no text at all, no trip line, a line with
\* times that is in neither format
ArtEmpty == Article(<<>>, <<>>, Date2025, StandA, <<>>)
ArtNoTripLines == Article(S1, <<S1>>, Date2025, StandA, <<NoiseLine>>)
ArtIncomplete ==
    Article(S1, <<S1>>, Date2025, StandA, <<TripIncomplete(Train15, Time0838)>>)

Articles ==
    {ArtSingle15, ArtSingle20, ArtSingleUnknown, ArtMultiExact, ArtMultiFallback, ArtMultiUnknown,
     ArtEmpty, ArtNoTripLines, ArtIncomplete}

ItemBatches == [1..MaxItems -> Articles]

ItemUrl(i) == <<"a", LowerLetters[i]>>

RunDefinitionDisks == {DiskConnected, DiskUnconnected, DiskBroken}

ObservationNames == {slugifyLineId(S1), slugifyLineId(S4)}

ObservationDisks ==
    { [n \in ObservationNames |-> NoObservationFile],
      [n \in ObservationNames |->
          IF n = slugifyLineId(S1) THEN TrainLineDefinition(S1, <<Train10>>, TRUE, <<S5>>)
          ELSE BrokenObservationFile],
      [n \in ObservationNames |->
          IF n = slugifyLineId(S1) THEN BrokenObservationFile
          ELSE NoObservationFile] }

Pending == [status |-> "pending", value |-> <<>>, isParseError |-> FALSE, cause |-> "none"]
Fulfilled(trips) ==
    [status |-> "fulfilled", value |-> trips, isParseError |-> FALSE, cause |-> "none"]
Rejected(isParseError, cause) ==
    [status |-> "rejected", value |-> <<>>, isParseError |-> isParseError, cause |-> cause]

EmptyFrame == [observations |-> <<>>, idx |-> 0, pending |-> Pending, merged |-> <<>>]

NotParsed ==
    [made |-> FALSE, threw |-> FALSE, error |-> "none", isParseError |-> FALSE,
     trips |-> <<>>, log |-> <<>>]

RunInit ==
    /\ NoTextCall
    /\ StoreStart(<<>>)
    /\ NoResolveCall
    /\ defFiles \in RunDefinitionDisks
    /\ loadedKb = BuildKnowledgeBase(defFiles)
    /\ obsFiles \in ObservationDisks
    /\ items \in ItemBatches
    /\ pc = [i \in DOMAIN items |-> "fetch"]
    /\ frame = [i \in DOMAIN items |-> EmptyFrame]
    /\ settled = [i \in DOMAIN items |-> Pending]
    /\ parsed = [i \in DOMAIN items |-> NotParsed]
    /\ mainPc = "load"
    /\ collected = [cancellations |-> <<>>, parseErrors |-> <<>>]
    /\ exitCode = -1
    /\ history = [fallbackWritten |-> {}, obsPersisted |-> {}, obsAtStart |-> obsFiles,
                  defAtStart |-> defFiles]

\* Importing train-lines.ts builds the knowledge base; an unparseable
\* definition file ends the process with an uncaught exception
LoadModules ==
    /\ mainPc = "load"
    /\ mainPc' = IF loadedKb.ok THEN "collect" ELSE "crashed"
    /\ exitCode' = IF loadedKb.ok THEN exitCode ELSE 1
    /\ UNCHANGED <<textVars, storeVars, kbVars, resolveVars, obsFiles, items, pc, frame, settled,
                   parsed, collected, history>>

\* fetchTripsFromItem returns [] early: no link, the fetch failed, the page is
\* not relevant, or the article is less than an hour old
SkipItem(i) ==
    /\ mainPc = "collect"
    /\ pc[i] = "fetch"
    /\ pc' = [pc EXCEPT ![i] = "done"]
    /\ settled' = [settled EXCEPT ![i] = Fulfilled(<<>>)]
    /\ UNCHANGED <<textVars, storeVars, kbVars, resolveVars, obsFiles, items, frame, parsed, mainPc,
                   collected, exitCode, history>>

\* Where fetchTripsFromItem goes once the line at frame.idx is dealt with: to
\* the next observed line, or to its return
Continue(fr) ==
    LET next == NextObservation(fr.observations, fr.idx + 1)
    IN IF next = 0 THEN [pc |-> "done", frame |-> fr, settled |-> fr.pending]
       ELSE [pc |-> "exists", frame |-> [fr EXCEPT !.idx = next], settled |-> Pending]

Goto(i, to) ==
    /\ pc' = [pc EXCEPT ![i] = to.pc]
    /\ frame' = [frame EXCEPT ![i] = to.frame]
    /\ settled' = [settled EXCEPT ![i] = to.settled]

\* A fetchTripsFromItem whose observation sink writes each observed train
\* number into the line's file while parseDetailPage is still running
ParseItemFlushing(i) ==
    /\ mainPc = "collect"
    /\ pc[i] = "fetch"
    /\ LET Flushed(out, n) ==
               LET hits == {k \in 1..Len(out.observations) :
                               slugifyLineId(out.observations[k].line) = n}
               IN IF hits = {} THEN obsFiles[n]
                  ELSE LET o == out.observations[CHOOSE k \in hits : TRUE]
                       IN LineDefinition(o.line,
                                         mergeTrainNumbers(obsFiles[n].trainNumbers,
                                                           o.trainNumbers).merged)
           Then(out) ==
          /\ defFiles' = out.files
          /\ obsFiles' = [n \in DOMAIN obsFiles |-> Flushed(out, n)]
          /\ parsed' = [parsed EXCEPT ![i] =
                          [made |-> TRUE, threw |-> out.threw, error |-> out.error,
                           isParseError |-> out.isParseError, trips |-> out.trips,
                           log |-> <<>>]]
          /\ Goto(i, [pc |-> "done", frame |-> EmptyFrame,
                      settled |-> IF out.threw THEN Rejected(TRUE, out.error)
                                  ELSE Fulfilled(out.trips)])
       IN Then(parseDetailPage(loadedKb, defFiles, items[i], ItemUrl(i)))
    /\ UNCHANGED <<textVars, storeVars, loadedKb, resolveVars, items, mainPc, collected,
                   exitCode, history>>

\* fetchTripsFromItem from the parse to its first await after it: the whole of
\* parseDetailPage, fallback writes included, runs without interruption
ParseItem(i) ==
    /\ mainPc = "collect"
    /\ pc[i] = "fetch"
    /\ LET hasTripLikeTimes ==
               \E k \in 1..Len(items[i].tripLines) : items[i].tripLines[k].timePair
           Merges(out) == ~out.threw \/ (out.error = "noTrips" /\ ~hasTripLikeTimes)
           Frame(out) ==
               [observations |-> out.observations, idx |-> 0, merged |-> <<>>,
                pending |-> IF out.threw THEN Fulfilled(<<>>) ELSE Fulfilled(out.trips)]
           Wrote(out) == {<<e.trainNumber, e.line>> : e \in
                            {out.log[k] : k \in {k \in 1..Len(out.log) :
                                                   /\ out.log[k].via = "fallback"
                                                   /\ out.log[k].error = "fallback"}}}
           Then(out) ==
          /\ defFiles' = out.files
          /\ parsed' = [parsed EXCEPT ![i] =
                          [made |-> TRUE, threw |-> out.threw, error |-> out.error,
                           isParseError |-> out.isParseError, trips |-> out.trips,
                           log |-> [k \in 1..Len(out.log) |->
                                      [trainNumber |-> out.log[k].trainNumber,
                                       via |-> out.log[k].via,
                                       threw |-> out.log[k].threw,
                                       line |-> out.log[k].line,
                                       lookups |-> out.log[k].lookups,
                                       persisted |->
                                          {w[2] : w \in {w \in history.fallbackWritten :
                                                    w[1] = out.log[k].trainNumber}}]]]]
          /\ history' = [history EXCEPT !.fallbackWritten = @ \cup Wrote(out)]
          /\ IF Merges(out)
             THEN Goto(i, Continue(Frame(out)))
             ELSE Goto(i, [pc |-> "done", frame |-> EmptyFrame,
                           settled |-> Rejected(TRUE, out.error)])
       IN Then(parseDetailPage(loadedKb, defFiles, items[i], ItemUrl(i)))
    /\ UNCHANGED <<textVars, storeVars, loadedKb, resolveVars, obsFiles, items, mainPc, collected,
                   exitCode>>

\* loadExistingLineDefinition up to `await exists(filePath)`
ObsExists(i) ==
    /\ pc[i] = "exists"
    /\ LET observation == frame[i].observations[frame[i].idx]
           name == slugifyLineId(observation.line)
           loaded == AfterLoad(observation, FALSE, LineDefinition(observation.line, <<>>))
       IN IF ObsFileAt(obsFiles, name).kind # "absent"
          THEN Goto(i, [pc |-> "read", frame |-> frame[i], settled |-> Pending])
          ELSE IF loaded.write
          THEN Goto(i, [pc |-> "write", frame |-> [frame[i] EXCEPT !.merged = loaded.merged],
                        settled |-> Pending])
          ELSE Goto(i, Continue(frame[i]))
    /\ UNCHANGED <<textVars, storeVars, kbVars, resolveVars, obsFiles, items, parsed, mainPc,
                   collected, exitCode, history>>

\* `await readJsonFile(filePath)`, then the merge up to `await writeJsonFile`
ObsRead(i) ==
    /\ pc[i] = "read"
    /\ LET observation == frame[i].observations[frame[i].idx]
           file == ObsFileAt(obsFiles, slugifyLineId(observation.line))
           loaded == AfterLoad(observation, file.kind = "corrupt",
                               IF file.kind = "def" THEN file
                               ELSE LineDefinition(observation.line, <<>>))
       IN IF loaded.write
          THEN Goto(i, [pc |-> "write", frame |-> [frame[i] EXCEPT !.merged = loaded.merged],
                        settled |-> Pending])
          ELSE Goto(i, Continue(frame[i]))
    /\ UNCHANGED <<textVars, storeVars, kbVars, resolveVars, obsFiles, items, parsed, mainPc,
                   collected, exitCode, history>>

\* writeJsonFile(filePath, {line, trainNumbers: merged})
ObsWrite(i) ==
    /\ pc[i] = "write"
    /\ LET observation == frame[i].observations[frame[i].idx]
           name == slugifyLineId(observation.line)
       IN /\ obsFiles' = [n \in DOMAIN obsFiles \cup {name} |->
                            IF n = name THEN LineDefinition(observation.line, frame[i].merged)
                            ELSE obsFiles[n]]
          /\ history' = [history EXCEPT !.obsPersisted =
                            @ \cup {<<name, frame[i].merged[k]>> :
                                      k \in 1..Len(frame[i].merged)}]
          /\ Goto(i, Continue(frame[i]))
    /\ UNCHANGED <<textVars, storeVars, kbVars, resolveVars, items, parsed, mainPc, collected,
                   exitCode>>

RECURSIVE Gather(_, _)
Gather(results, acc) ==
    IF results = <<>> THEN acc
    ELSE Gather(Tail(results),
                IF Head(results).status = "fulfilled"
                THEN [acc EXCEPT !.cancellations = @ \o Head(results).value]
                ELSE IF Head(results).isParseError
                THEN [acc EXCEPT !.parseErrors = Append(@, Head(results).cause)]
                ELSE acc)

\* A main that reports the parse errors as soon as there are any
CollectTripsReportingFirst ==
    /\ mainPc = "collect"
    /\ \A i \in DOMAIN items : pc[i] = "done"
    /\ collected' = Gather(settled, [cancellations |-> <<>>, parseErrors |-> <<>>])
    /\ mainPc' = IF collected'.cancellations = <<>> \/ collected'.parseErrors # <<>>
                 THEN "report" ELSE "save"
    /\ UNCHANGED <<textVars, storeVars, kbVars, resolveVars, obsFiles, items, pc, frame, settled,
                   parsed, exitCode, history>>

\* collectTrips once every promise has settled, and main up to its next await
CollectTrips ==
    /\ mainPc = "collect"
    /\ \A i \in DOMAIN items : pc[i] = "done"
    /\ collected' = Gather(settled, [cancellations |-> <<>>, parseErrors |-> <<>>])
    /\ mainPc' = IF collected'.cancellations = <<>> THEN "report" ELSE "save"
    /\ UNCHANGED <<textVars, storeVars, kbVars, resolveVars, obsFiles, items, pc, frame, settled,
                   parsed, exitCode, history>>

\* await saveCancellations(DATA_DIR, result.cancellations)
SaveCollected ==
    /\ mainPc = "save"
    /\ LET Then(res) ==
               /\ bucketFiles' \in res.outcomes
               /\ prevBucketFiles' = bucketFiles
               /\ lastTrips' = collected.cancellations
               /\ lastStats' = StatsOf(res)
               /\ saved' = TRUE
               /\ repeated' = FALSE
               /\ writing' = writing
       IN Then(saveCancellations(bucketFiles, collected.cancellations))
    /\ mainPc' = "report"
    /\ UNCHANGED <<textVars, kbVars, resolveVars, obsFiles, items, pc, frame, settled, parsed,
                   collected, exitCode, history>>

\* handleParseErrors, and the end of main
HandleParseErrors ==
    /\ mainPc = "report"
    /\ exitCode' = IF collected.parseErrors # <<>> THEN 1 ELSE 0
    /\ mainPc' = "exited"
    /\ UNCHANGED <<textVars, storeVars, kbVars, resolveVars, obsFiles, items, pc, frame, settled,
                   parsed, collected, history>>

Next ==
    \/ LoadModules
    \/ \E i \in DOMAIN items : SkipItem(i)
    \/ \E i \in DOMAIN items : ParseItem(i)
    \/ \E i \in DOMAIN items : ObsExists(i)
    \/ \E i \in DOMAIN items : ObsRead(i)
    \/ \E i \in DOMAIN items : ObsWrite(i)
    \/ CollectTrips
    \/ SaveCollected
    \/ HandleParseErrors

Spec == RunInit /\ [][Next]_vars

(***************************************************************************)
(* Claims about the store                                                  *)
(***************************************************************************)
KeyOf(r) == <<r.date, r.trainNumber, r.fromTime>>
PathOf(r) == DATA_DIR \o <<"/">> \o SliceTo(r.date, 4) \o <<"/">> \o r.line \o JsonSuffix
NoDupKeys(entries) ==
    \A i, j \in 1..Len(entries) : i # j => KeyOf(entries[i]) # KeyOf(entries[j])
Range(seq) == {seq[i] : i \in 1..Len(seq)}

\* The k-th incoming record meets its key in the loaded bucket or earlier in the call
IsIncomingDuplicate(k) ==
    LET t == lastTrips[k]
    IN \/ \E e \in Range(loadExisting(prevBucketFiles[PathOf(t)])) : KeyOf(e) = KeyOf(t)
       \/ \E m \in 1..(k - 1) : PathOf(lastTrips[m]) = PathOf(t)
                                /\ KeyOf(lastTrips[m]) = KeyOf(t)

\* C1: after saveCancellations, provided no loaded bucket file held two
\* entries of one identity key (date, trainNumber, fromTime), no written
\* bucket holds two entries of one key; every entry that was in the file is
\* still there unchanged; an incoming record whose key is already in the
\* bucket (from disk or from earlier in the call) is not stored and is
\* counted as a duplicate, and the entry stored under that key is the one
\* that was there first.
C1_NoDuplicateKeys ==
    (saved /\ \A p \in lastStats.written : NoDupKeys(loadExisting(prevBucketFiles[p])))
    =>
    /\ \A p \in lastStats.written :
          /\ bucketFiles[p].kind = "array"
          /\ NoDupKeys(bucketFiles[p].entries)
          /\ Range(loadExisting(prevBucketFiles[p])) \subseteq Range(bucketFiles[p].entries)
    /\ \A k \in 1..Len(lastTrips) :
          LET t == lastTrips[k]
              stored == {e \in Range(bucketFiles[PathOf(t)].entries) : KeyOf(e) = KeyOf(t)}
              old == {e \in Range(loadExisting(prevBucketFiles[PathOf(t)])) : KeyOf(e) = KeyOf(t)}
          IN /\ PathOf(t) \in lastStats.written
             /\ Cardinality(stored) = 1
             /\ old # {} => stored = old
             /\ (old = {} /\ ~IsIncomingDuplicate(k)) => stored = {t}
    /\ lastStats.duplicates = Cardinality({k \in 1..Len(lastTrips) : IsIncomingDuplicate(k)})
    /\ lastStats.added = Len(lastTrips) - lastStats.duplicates

\* C1 witness: a record with the key of a stored entry but another stand
\* came in, was counted as a duplicate and the stored entry stayed.
C1_Witness ==
    /\ saved
    /\ \A p \in lastStats.written : NoDupKeys(loadExisting(prevBucketFiles[p]))
    /\ RecBase \in Range(loadExisting(prevBucketFiles[PathBase]))
    /\ RecSameKey \in Range(lastTrips)
    /\ lastStats.duplicates >= 1
    /\ RecBase \in Range(bucketFiles[PathBase].entries)
    /\ RecSameKey \notin Range(bucketFiles[PathBase].entries)

\* C2: a second saveCancellations with the same list adds nothing, counts
\* every incoming record as a duplicate and leaves every bucket file as the
\* first run left it.
C2_Idempotent ==
    repeated =>
        /\ lastStats.added = 0
        /\ lastStats.duplicates = Len(lastTrips)
        /\ bucketFiles = prevBucketFiles

\* C2 witness: a non-empty list was saved twice in a row
C2_Witness ==
    /\ repeated
    /\ Len(lastTrips) = MaxTrips
    /\ lastStats.duplicates = Len(lastTrips)
    /\ bucketFiles[PathBase].kind = "array"

(***************************************************************************)
(* Claims about the line resolver                                          *)
(***************************************************************************)
ContainsSubstring(s, sub) ==
    \E i \in 1..(Len(s) - Len(sub) + 1) : SubSeq(s, i, i + Len(sub) - 1) = sub

\* The declared line is non-ambiguous, as the specification words it
DeclaredUnambiguous(line) ==
    /\ trim(line) # <<>>
    /\ trim(line) # DEFAULT_LINE
    /\ ~ContainsSubstring(toLowerCase(line), <<"u", "n", "d">>)
    /\ \A i \in 1..Len(line) : line[i] \notin {",", "/", "&"}
    /\ ~MULTI_LINE_RANGE_PATTERN(line)

\* C8: when the article mentions exactly one line and the declared line is
\* non-ambiguous, resolveLineForTrip returns the trimmed declared line whatever
\* the knowledge base holds, calls the observation sink exactly once with
\* (line, trainNumber), makes no lookup and writes no definition file.
C8_SingleMentionPriority ==
    (resolveOut.made /\ resolveIn.lineMentionCount = 1 /\ DeclaredUnambiguous(resolveIn.line))
    =>
    /\ ~resolveOut.threw
    /\ resolveOut.line = trim(resolveIn.line)
    /\ resolveIn.hasSink =>
          resolveOut.observed = <<<<trim(resolveIn.line), resolveIn.trainNumber>>>>
    /\ resolveOut.lookups = 0
    /\ defFiles = resolveOut.filesBefore

\* C8 witness: declared " S5 ", one mentioned line, a train number the
\* knowledge base maps to S4: S5 is returned and observed.
C8_Witness ==
    /\ resolveOut.made
    /\ resolveIn.lineMentionCount = 1
    /\ resolveIn.line = <<" ", "S", "5", " ">>
    /\ resolveIn.trainNumber = Train10
    /\ resolveIn.hasSink
    /\ Train10 \in DOMAIN loadedKb.mapping.entry
    /\ resolveOut.line = S5
    /\ resolveOut.observed = <<<<S5, Train10>>>>

\* The train numbers the definition files listed before the call, and the
\* ones that share trainNumber without its last digit
ListedOn(files, trainNumber) ==
    {n \in DOMAIN files : files[n].kind = "def"
                          /\ \E i \in 1..Len(files[n].trainNumbers) :
                                files[n].trainNumbers[i] = trainNumber}
PrefixSharing(files, trainNumber) ==
    {n \in DOMAIN files : files[n].kind = "def"
                          /\ \E i \in 1..Len(files[n].trainNumbers) :
                                /\ files[n].trainNumbers[i] # trainNumber
                                /\ DropLast(files[n].trainNumbers[i]) = DropLast(trainNumber)}

\* The case of C3: a multi-line article, no exact entry, a known train number
\* that shares the number without its last digit
FallbackCase ==
    /\ resolveOut.made
    /\ resolveIn.lineMentionCount > 1
    /\ Len(resolveIn.trainNumber) >= 2
    /\ ListedOn(resolveOut.filesBefore, resolveIn.trainNumber) = {}
    /\ PrefixSharing(resolveOut.filesBefore, resolveIn.trainNumber) # {}

\* C3 as stated: in the fallback case the resolution returns the matched
\* entry's line, the train number is added to that line's file, and the
\* fallback condition is raised.
C3_ReturnsAndRaises ==
    FallbackCase =>
        /\ ~resolveOut.threw
        /\ toLowerCase(resolveOut.line) \in PrefixSharing(resolveOut.filesBefore,
                                                          resolveIn.trainNumber)
        /\ toLowerCase(resolveOut.line) \in ListedOn(defFiles, resolveIn.trainNumber)

\* C3 amended: in the fallback case the resolution does not return: it selects
\* the line of a known train number sharing the prefix, adds the train number
\* to that line's definition file and to no other, and throws the fallback
\* error that names the line.
C3_FallbackPersistsAndThrows ==
    FallbackCase =>
        /\ resolveOut.threw
        /\ resolveOut.error = "fallback"
        /\ resolveOut.via = "fallback"
        /\ toLowerCase(resolveOut.line) \in PrefixSharing(resolveOut.filesBefore,
                                                          resolveIn.trainNumber)
        /\ ListedOn(defFiles, resolveIn.trainNumber) = {toLowerCase(resolveOut.line)}
        /\ \A n \in DOMAIN defFiles :
              n # toLowerCase(resolveOut.line) => defFiles[n] = resolveOut.filesBefore[n]

\* C3 witness: 19 is unknown, 10 is on S4; the article mentions S1 and S4;
\* the lookup throws with S4 selected and s4.json lists 10 and 19.
C3_Witness ==
    /\ FallbackCase
    /\ resolveIn.trainNumber = Train19
    /\ resolveIn.mentionedLines = <<S1, S4>>
    /\ resolveOut.threw
    /\ resolveOut.line = S4
    /\ defFiles[toLowerCase(S4)].trainNumbers = <<Train10, Train19>>

(***************************************************************************)
(* Claims about the run                                                    *)
(***************************************************************************)
ParsedItems == {i \in DOMAIN items : parsed[i].made}

\* The resolveLineForTrip calls of item i that searched for a train number
\* sharing the truncated prefix, and those that found and applied one
TruncationAttempts(i) ==
    {k \in 1..Len(parsed[i].log) :
        parsed[i].log[k].lookups = 1 /\ parsed[i].log[k].via # "exact"}
TruncationCalls(i) ==
    {k \in 1..Len(parsed[i].log) : parsed[i].log[k].via = "fallback"}

StoredRecords ==
    UNION {Range(bucketFiles[p].entries) : p \in {p \in DOMAIN bucketFiles :
                                                    bucketFiles[p].kind = "array"}}

\* C4: digit truncation is applied only in an article that is not a
\* single-mention unambiguous one and only to a train number without an exact
\* knowledge-base entry; the parse in which it is applied throws, so no record
\* of that article is returned, collected or stored, the item is rejected with
\* a ParseError, and the process exits with code 1.
C4_FallbackNeverTrusted ==
    \A i \in ParsedItems :
      /\ \A k \in TruncationAttempts(i) \cup TruncationCalls(i) :
        /\ ~(Len(items[i].mentionedLines) = 1 /\ DeclaredUnambiguous(items[i].line))
        /\ parsed[i].log[k].trainNumber \notin DOMAIN loadedKb.mapping.entry
      /\ \A k \in TruncationCalls(i) :
        /\ parsed[i].log[k].threw
        /\ parsed[i].threw
        /\ parsed[i].trips = <<>>
        /\ settled[i].status = "rejected"
        /\ settled[i].isParseError
        /\ \A r \in Range(collected.cancellations) \cup StoredRecords :
              r.sourceUrl # ItemUrl(i)
        /\ mainPc \in {"save", "report", "exited"} => collected.parseErrors # <<>>
        /\ mainPc = "exited" => exitCode = 1

\* C4 witness: a run that stored the records of one article and exited after
\* another article applied a truncation match.
C4_Witness ==
    /\ mainPc = "exited"
    /\ saved
    /\ StoredRecords # {}
    /\ \E i \in ParsedItems : TruncationCalls(i) # {}

\* C5: once a fallback match has written train number T into the definition
\* file of line L, every later knowledge-base lookup of T in the run is an
\* exact match that returns L without raising an error.
C5_LaterLookupIsExact ==
    \A i \in ParsedItems : \A k \in 1..Len(parsed[i].log) :
        (parsed[i].log[k].lookups = 1 /\ parsed[i].log[k].persisted # {})
        => /\ parsed[i].log[k].via = "exact"
           /\ ~parsed[i].log[k].threw
           /\ parsed[i].log[k].line \in parsed[i].log[k].persisted

ObservedNumbersAtStart(name) ==
    IF ObsFileAt(history.obsAtStart, name).kind = "def"
    THEN Range(ObsFileAt(history.obsAtStart, name).trainNumbers)
    ELSE {}

\* C6: once every article has finished, each line's definition file holds
\* every train number it held before the run and every train number an
\* article wrote to it, whether by the observation merge or by the fallback.
C6_NoLostUpdate ==
    (\A i \in DOMAIN items : pc[i] = "done")
    => /\ \A name \in DOMAIN obsFiles :
            ObservedNumbersAtStart(name)
              \cup {w[2] : w \in {w \in history.obsPersisted : w[1] = name}}
            \subseteq Range(obsFiles[name].trainNumbers)
       /\ \A w \in history.fallbackWritten :
            w[1] \in Range(FileAt(defFiles, toLowerCase(w[2])).trainNumbers)

\* Two definitions list the same train number and neither declares the
\* other's line as connected
UnconnectedConflict(files) ==
    \E n1, n2 \in DOMAIN files :
        /\ n1 # n2
        /\ files[n1].kind = "def"
        /\ files[n2].kind = "def"
        /\ Range(files[n1].trainNumbers) \cap Range(files[n2].trainNumbers) # {}
        /\ files[n2].line \notin Range(files[n1].connectedLines)
        /\ files[n1].line \notin Range(files[n2].connectedLines)

\* C7: when two definitions whose lines are not declared connected list the
\* same train number, no knowledge base is built and no article is resolved.
C7_ConflictFailsBuild ==
    UnconnectedConflict(history.defAtStart)
    => /\ ~loadedKb.ok
       /\ mainPc # "collect"
       /\ ParsedItems = {}

\* C9: in an article that mentions more than one line, a trip whose train
\* number has neither an exact knowledge-base entry nor a truncated-prefix
\* match makes parseDetailPage throw; no record is returned for that trip.
C9_UnresolvedRaises ==
    \A i \in ParsedItems : \A k \in 1..Len(parsed[i].log) :
        ( /\ Len(items[i].mentionedLines) > 1
          /\ parsed[i].log[k].trainNumber \notin DOMAIN loadedKb.mapping.entry
          /\ findMatchingTrainsWithoutLastDigit(loadedKb.mapping,
                                                parsed[i].log[k].trainNumber) = <<>> )
        => /\ parsed[i].threw
           /\ \A r \in Range(parsed[i].trips) :
                 r.trainNumber # parsed[i].log[k].trainNumber

\* No line of the article is a trip line in either format
NoValidTripLine(article) ==
    \A k \in 1..Len(article.tripLines) :
        LET l == article.tripLines[k]
        IN /\ ~(l.newMatch.matched /\ l.newMatch.trainNumber # <<>>
                /\ trim(l.newMatch.fromStop) \notin {<<>>, Uhr}
                /\ trim(l.newMatch.toStop) \notin {<<>>, Uhr})
           /\ ~l.oldMatch.matched

ValidTripLines(article) ==
    {k \in 1..Len(article.tripLines) :
        LET l == article.tripLines[k]
        IN \/ /\ l.newMatch.matched
              /\ l.newMatch.trainNumber # <<>>
              /\ trim(l.newMatch.fromStop) \notin {<<>>, Uhr}
              /\ trim(l.newMatch.toStop) \notin {<<>>, Uhr}
           \/ l.oldMatch.matched}

\* The resolveLineForTrip calls of item i whose line could not be resolved: a
\* truncation match was applied, or the article mentions several lines and the
\* train number has neither an exact entry nor a truncation match
UnresolvedCalls(i) ==
    {k \in 1..Len(parsed[i].log) :
        \/ parsed[i].log[k].via = "fallback"
        \/ /\ Len(items[i].mentionedLines) > 1
           /\ parsed[i].log[k].trainNumber \notin DOMAIN loadedKb.mapping.entry
           /\ findMatchingTrainsWithoutLastDigit(loadedKb.mapping,
                                                 parsed[i].log[k].trainNumber) = <<>>}

\* C11: parseDetailPage is all-or-nothing: when it returns, it returns one
\* record for every grammar-valid trip line of the article, in order; when it
\* throws, no record is returned; and when the line of any trip could not be
\* resolved (fallback applied, or unresolved multi-line mapping) it throws and
\* returns no record.
C11_AllOrNothing ==
    \A i \in ParsedItems :
        /\ ~parsed[i].threw => Len(parsed[i].trips) = Cardinality(ValidTripLines(items[i]))
        /\ parsed[i].threw => parsed[i].trips = <<>>
        /\ UnresolvedCalls(i) # {} => (parsed[i].threw /\ parsed[i].trips = <<>>)

RECURSIVE FulfilledValues(_)
FulfilledValues(results) ==
    IF results = <<>> THEN <<>>
    ELSE (IF Head(results).status = "fulfilled" THEN Head(results).value ELSE <<>>)
         \o FulfilledValues(Tail(results))

ParseErrorItems == {i \in DOMAIN items : settled[i].status = "rejected" /\ settled[i].isParseError}

\* C12: a parse error in one article does not keep the records of the other
\* articles from being collected: an article whose parse returned is fulfilled
\* with exactly its records, and collectTrips gathers the records of every
\* fulfilled article, in item order, and one error per rejected article.  A run
\* with records saves all of them (each is in its bucket file, or an earlier
\* record of the same key is) before any exit code is set, and only then
\* reports the errors and exits with code 1.
C12_ErrorsDoNotBlockRecords ==
    /\ \A i \in ParsedItems :
          (pc[i] = "done" /\ ~parsed[i].threw) => settled[i] = Fulfilled(parsed[i].trips)
    /\ mainPc \in {"save", "report", "exited"} =>
          /\ collected.cancellations = FulfilledValues(settled)
          /\ Len(collected.parseErrors) = Cardinality(ParseErrorItems)
    /\ mainPc = "save" => exitCode = -1
    /\ (mainPc \in {"report", "exited"} /\ collected.cancellations # <<>>) =>
          /\ saved
          /\ lastTrips = collected.cancellations
          /\ \A r \in Range(collected.cancellations) :
                \E e \in StoredRecords : KeyOf(e) = KeyOf(r) /\ PathOf(e) = PathOf(r)
    /\ mainPc = "report" => exitCode = -1
    /\ mainPc = "exited" => exitCode = (IF collected.parseErrors # <<>> THEN 1 ELSE 0)

\* C12 witness: one article gave a record and the other a parse error; the
\* record is stored and the run has exited with code 1.
C12_Witness ==
    /\ items = <<ArtIncomplete, ArtSingle15>>
    /\ mainPc = "exited"
    /\ exitCode = 1
    /\ settled[1].status = "rejected"
    /\ Len(collected.parseErrors) = 1
    /\ saved
    /\ \E e \in StoredRecords : e.trainNumber = Train15 /\ e.sourceUrl = ItemUrl(2)

\* The step in which the processing of item i ends in an error
EndsInError(i) ==
    /\ pc[i] = "fetch"
    /\ pc'[i] = "done"
    /\ settled'[i].status = "rejected"

\* C13 as stated: the processing of an article that ends in an error leaves
\* every line definition file and every bucket file as it was.
C13_NoPartialState ==
    [][\A i \in DOMAIN items :
          EndsInError(i) => /\ defFiles' = defFiles
                            /\ obsFiles' = obsFiles
                            /\ bucketFiles' = bucketFiles]_vars

\* The step in which parseDetailPage throws for item i
ParseThrows(i) == ~parsed[i].made /\ parsed'[i].made /\ parsed'[i].threw

\* C13 amended: when parseDetailPage throws for an article, no bucket file is
\* changed and no observation is merged; the line definition files are as
\* they were unless the error is the fallback error, and then the only
\* change is that the train number of the failing trip is listed in the
\* selected line's file (its line and connected lines, and every other file,
\* are as before).
C13_OnlyFallbackWritePersists ==
    [][\A i \in DOMAIN items :
          ParseThrows(i) =>
            /\ obsFiles' = obsFiles
            /\ bucketFiles' = bucketFiles
            /\ IF parsed'[i].error # "fallback"
               THEN defFiles' = defFiles
               ELSE LET call == parsed'[i].log[Len(parsed'[i].log)]
                        name == toLowerCase(call.line)
                    IN /\ call.via = "fallback"
                       /\ DOMAIN defFiles' = DOMAIN defFiles
                       /\ \A n \in DOMAIN defFiles : n # name => defFiles'[n] = defFiles[n]
                       /\ defFiles[name].kind = "def"
                       /\ Range(defFiles'[name].trainNumbers)
                            = Range(defFiles[name].trainNumbers) \cup {call.trainNumber}
                       /\ Len(defFiles'[name].trainNumbers)
                            = Cardinality(Range(defFiles'[name].trainNumbers))
                       /\ defFiles'[name]
                            = [defFiles[name] EXCEPT
                                 !.trainNumbers = defFiles'[name].trainNumbers]]_vars

\* C13 witness: an article was rejected with the fallback error and train 19
\* is now in s4.json, which it was not before the run; another article was
\* rejected for having no trips.
C13_Witness ==
    /\ \E i \in ParsedItems : /\ settled[i].status = "rejected"
                              /\ parsed[i].error = "fallback"
    /\ \E i \in ParsedItems : /\ settled[i].status = "rejected"
                              /\ parsed[i].error = "noTrips"
    /\ Train19 \in Range(defFiles[toLowerCase(S4)].trainNumbers)
    /\ Train19 \notin Range(history.defAtStart[toLowerCase(S4)].trainNumbers)
    /\ obsFiles = history.obsAtStart

\* The items that are inside updateTrainLineDefinitionsFromObservations
MergingItems == {i \in DOMAIN items : pc[i] \in {"exists", "read", "write"}}

\* C14: a line definition file is written by the observation merge only in a
\* step of an article whose parseDetailPage has returned its full record list
\* (the records are held back until the merge has ended); an article whose
\* parse ended in a fallback or unresolved-mapping error never enters the
\* merge and keeps no observation.
C14_MergeOnlyAfterParse ==
    [][ /\ obsFiles' # obsFiles =>
              \E i \in DOMAIN items :
                  /\ pc[i] = "write"
                  /\ parsed[i].made
                  /\ ~parsed[i].threw
                  /\ frame[i].pending = Fulfilled(parsed[i].trips)
        /\ \A i \in DOMAIN items :
              /\ i \in MergingItems' => (parsed'[i].made /\ ~parsed'[i].threw)
              /\ (parsed'[i].made /\ parsed'[i].error \in {"fallback", "multiLine", "io"})
                 => /\ pc'[i] = "done"
                    /\ frame'[i].observations = <<>> ]_vars

\* C14 witness: the observed train 15 of a fully parsed article is in s1.json
\* while the other article ended in the fallback error.
C14_Witness ==
    /\ \E i \in ParsedItems : /\ ~parsed[i].threw
                              /\ pc[i] = "done"
                              /\ frame[i].observations # <<>>
    /\ \E i \in ParsedItems : parsed[i].error = "fallback"
    /\ <<slugifyLineId(S1), Train15>> \in history.obsPersisted
    /\ Train15 \in Range(obsFiles[slugifyLineId(S1)].trainNumbers)

\* The step in which item i writes the merged definition of an observed line
WritesObservation(i) == pc[i] = "write" /\ pc'[i] # "write"

\* C15: every write of the observation merge is additive: the train numbers
\* of the written file are, without duplicates, the ones the file held just
\* before the write plus the observed ones; none is removed; and the file is
\* written only when an observed number was not in it.
C15_AdditiveOnly ==
    [][\A i \in DOMAIN items :
          WritesObservation(i) =>
            LET observation == frame[i].observations[frame[i].idx]
                name == slugifyLineId(observation.line)
                before == IF ObsFileAt(obsFiles, name).kind = "def"
                          THEN Range(ObsFileAt(obsFiles, name).trainNumbers) ELSE {}
                after == obsFiles'[name].trainNumbers
            IN /\ Range(after) = before \cup Range(observation.trainNumbers)
               /\ Len(after) = Cardinality(Range(after))
               /\ ~(Range(observation.trainNumbers) \subseteq before)]_vars

(***************************************************************************)
(* Claims about the order and the partition of the bucket files            *)
(***************************************************************************)
\* a is not after b in the order by date, then fromTime, then trainNumber,
\* each compared as a string
NotAfter(a, b) ==
    \/ localeCompare(a.date, b.date) < 0
    \/ /\ localeCompare(a.date, b.date) = 0
       /\ \/ localeCompare(a.fromTime, b.fromTime) < 0
          \/ /\ localeCompare(a.fromTime, b.fromTime) = 0
             /\ localeCompare(a.trainNumber, b.trainNumber) <= 0

\* C16: after saveCancellations every bucket file it wrote is sorted
\* ascending by (date, fromTime, trainNumber), the entries that were in the
\* file before the call included.
C16_BucketsSorted ==
    saved =>
        \A p \in lastStats.written :
            /\ bucketFiles[p].kind = "array"
            /\ \A i, j \in 1..Len(bucketFiles[p].entries) :
                  i < j => NotAfter(bucketFiles[p].entries[i], bucketFiles[p].entries[j])

\* C16 witness: a file that held the 8:38 trip before the 10:07 trip was
\* written with the 10:07 trip first ("10:07" sorts before "8:38" as a
\* string) and a new record.
C16_Witness ==
    /\ saved
    /\ PathBase \in lastStats.written
    /\ prevBucketFiles[PathBase] = ArrayFile(<<RecBase, RecEarlier>>)
    /\ lastStats.added >= 1
    /\ Len(bucketFiles[PathBase].entries) >= 2
    /\ bucketFiles[PathBase].entries[1] = RecEarlier
    /\ RecBase \in Range(bucketFiles[PathBase].entries)

\* C17: records are partitioned by (year, line): every record of the call is
\* represented in the file baseDir/<first 4 characters of its date>/<its
\* line>.json and every entry the call added to a file belongs there; the
\* written files are exactly the files of the (year, line) pairs of the list,
\* one bucket each; each of them was loaded once and written once, so no two
\* writes of the call target the same file.
C17_PartitionedByYearAndLine ==
    saved =>
        /\ lastStats.written = {PathOf(t) : t \in Range(lastTrips)}
        /\ Cardinality(lastStats.keys) = Cardinality(lastStats.written)
        /\ \A p \in lastStats.written :
              /\ lastStats.loads[p] = 1
              /\ lastStats.writes[p] = 1
              /\ bucketFiles[p].kind = "array"
              /\ \A e \in Range(bucketFiles[p].entries)
                            \ Range(loadExisting(prevBucketFiles[p])) :
                    /\ PathOf(e) = p
                    /\ e \in Range(lastTrips)
        /\ \A t \in Range(lastTrips) :
              \E e \in Range(bucketFiles[PathOf(t)].entries) : KeyOf(e) = KeyOf(t)
        /\ \A p \in DOMAIN bucketFiles \ lastStats.written :
              bucketFiles[p] = prevBucketFiles[p]

\* C17 witness: a call with a record of S5 in 2024 and one of S1 in 2025
\* wrote d/2024/S5.json and d/2025/S1.json, one record each.
C17_Witness ==
    /\ saved
    /\ lastTrips = <<RecEarlier, RecOther>>
    /\ lastStats.written = {<<"d", "/", "2", "0", "2", "4", "/", "S", "5", ".", "j", "s", "o", "n">>,
                            <<"d", "/", "2", "0", "2", "5", "/", "S", "1", ".", "j", "s", "o", "n">>}
    /\ RecEarlier \in Range(bucketFiles[PathOf(RecEarlier)].entries)
    /\ bucketFiles[PathOf(RecOther)].entries = <<RecOther>>

(***************************************************************************)
(* Claims about parseDetailPage on text                                    *)
(***************************************************************************)
\* C18: two calls of parseDetailPage on the same page give the same outcome:
\* both throw, or both return the same records in the same order, equal in
\* every field (capturedAt is not part of the modelled record).
C18_Deterministic ==
    \A i, j \in 1..Len(parses) :
        /\ parses[i].threw = parses[j].threw
        /\ parses[i].trips = parses[j].trips

\* One or two digits, a colon and two digits
IsClockTime(t) ==
    \/ Len(t) = 4 /\ TimeAt(t, 1, 1)
    \/ Len(t) = 5 /\ TimeAt(t, 1, 2)

\* C19: every record parseDetailPage returns has a non-empty line, date,
\* stand, trainNumber, fromStop, fromTime, toStop and toTime, and its
\* fromTime and toTime are one or two digits, a colon and two digits.
C19_RecordFieldsNonEmpty ==
    \A i \in 1..Len(parses) : \A k \in 1..Len(parses[i].trips) :
        LET r == parses[i].trips[k]
        IN /\ r.line # <<>>
           /\ r.date # <<>>
           /\ r.stand # <<>>
           /\ r.trainNumber # <<>>
           /\ r.fromStop # <<>>
           /\ r.toStop # <<>>
           /\ IsClockTime(r.fromTime)
           /\ IsClockTime(r.toTime)

\* The physical lines i .. i + more joined with single blanks
RECURSIVE Joined(_, _, _)
Joined(rawLines, i, more) ==
    IF more = 0 THEN rawLines[i]
    ELSE trim(Joined(rawLines, i, more - 1) \o <<" ">> \o rawLines[i + more])

\* A trip is split across exactly n physical lines from line i on: the n lines
\* joined are a valid trip line and no shorter prefix of them is
SplitAcross(rawLines, i, n) ==
    /\ i + n - 1 <= Len(rawLines)
    /\ isValidTripLine(Joined(rawLines, i, n - 1))
    /\ \A more \in 0..(n - 2) : ~isValidTripLine(Joined(rawLines, i, more))

\* C20: when mergeTripLines is at the first line of a trip split across
\* exactly 3 physical lines, it emits the 3 lines joined as one candidate and
\* consumes all 3; when it is at the first line of a trip split across 5
\* physical lines, it emits nothing and consumes that line only, and the trip
\* is not among the candidates.
C20_MergeBound ==
    \A c \in 1..Len(parses) : \A k \in 1..Len(parses[c].steps) :
        LET step == parses[c].steps[k]
        IN /\ SplitAcross(parses[c].rawLines, step.index, 3)
              => /\ step.pushed
                 /\ step.linesConsumed = 3
                 /\ step.line = Joined(parses[c].rawLines, step.index, 2)
                 /\ step.line \in Range(parses[c].mergedLines)
           /\ SplitAcross(parses[c].rawLines, step.index, 5)
              => /\ ~step.pushed
                 /\ step.linesConsumed = 1
                 /\ Joined(parses[c].rawLines, step.index, 4) \notin Range(parses[c].mergedLines)

\* C20 witness: of a trip in 3 lines followed by a trip in 5 lines, the first
\* is the only candidate; the scan consumed 3 lines at line 1 and dropped
\* line 4.
C20_Witness ==
    /\ Len(parses) >= 1
    /\ SplitAcross(parses[1].rawLines, 1, 3)
    /\ SplitAcross(parses[1].rawLines, 4, 5)
    /\ parses[1].mergedLines = <<LineNew>>
    /\ parses[1].steps[1].linesConsumed = 3
    /\ parses[1].steps[2] = [index |-> 4, linesConsumed |-> 1, pushed |-> FALSE,
                             line |-> <<>>]
    /\ Len(parses[1].trips) = 1

(***************************************************************************)
(* Claims about malformed files, the exact match and the frame of writes   *)
(***************************************************************************)
\* The observed lines of item i whose file could not be parsed when the run began
MalformedObserved(i) ==
    {k \in 1..Len(frame[i].observations) :
        /\ frame[i].observations[k].trainNumbers # <<>>
        /\ slugifyLineId(frame[i].observations[k].line) \in DOMAIN history.obsAtStart
        /\ history.obsAtStart[slugifyLineId(frame[i].observations[k].line)].kind = "corrupt"}

\* Once item i has merged its observations, the file of every observed line
\* that was unparseable at the start defines that line and lists what was observed
MergedFromEmpty(i) ==
    \A k \in MalformedObserved(i) :
      LET observation == frame[i].observations[k]
          file == ObsFileAt(obsFiles, slugifyLineId(observation.line))
      IN /\ file.kind = "def"
         /\ file.line = observation.line
         /\ \A n \in 1..Len(observation.trainNumbers) :
               \E m \in 1..Len(file.trainNumbers) :
                  file.trainNumbers[m] = observation.trainNumbers[n]

MalformedObservationIsFresh == \A i \in DOMAIN items : pc[i] = "done" => MergedFromEmpty(i)

\* C21: a definition file that cannot be parsed is treated as an empty
\* definition of its line and harms nothing else: the run goes on past the
\* loading of the definitions, and once an item has merged its observations,
\* the file of every observed line that was unparseable at the start holds a
\* definition of that line listing the observed train numbers.
C21_MalformedFileIsFresh ==
    /\ mainPc # "crashed"
    /\ MalformedObservationIsFresh

\* The lines whose definition file listed trainNumber, the first of them in
\* the order the files are loaded, and the size of a line's definition
KnownLines(files, trainNumber) == {files[n].line : n \in ListedOn(files, trainNumber)}
PrimaryLine(files, trainNumber) == files[SortNames(ListedOn(files, trainNumber))[1]].line
DefinitionSize(files, line) ==
    Len(files[CHOOSE n \in DOMAIN files : files[n].kind = "def" /\ files[n].line = line]
          .trainNumbers)
\* The known lines that the article mentions, whatever the case of the letters
MentionedKnownLines(files, trainNumber, mentionedLines) ==
    {l \in KnownLines(files, trainNumber) :
        \E k \in 1..Len(mentionedLines) :
           toUpperCase(trim(mentionedLines[k])) = toUpperCase(l)}

\* A lookup was made for a train number that a definition file lists
ExactCase ==
    /\ resolveOut.made
    /\ resolveOut.lookups = 1
    /\ ListedOn(resolveOut.filesBefore, resolveIn.trainNumber) # {}

\* C22: the lookup of a train number with an exact entry returns one of the
\* entry's known lines and writes no file: the one known line the article
\* mentions if there is exactly one, a mentioned known line whose definition
\* lists the fewest train numbers if there are several, and the primary
\* (first registered) line if the article mentions none of them.
C22_ExactMatchPreference ==
    ExactCase =>
        LET files == resolveOut.filesBefore
            known == KnownLines(files, resolveIn.trainNumber)
            mentioned == MentionedKnownLines(files, resolveIn.trainNumber,
                                             resolveIn.mentionedLines)
        IN /\ ~resolveOut.threw
           /\ resolveOut.via = "exact"
           /\ resolveOut.line \in known
           /\ defFiles = files
           /\ Cardinality(mentioned) = 1 => resolveOut.line \in mentioned
           /\ Cardinality(mentioned) > 1 =>
                 /\ resolveOut.line \in mentioned
                 /\ \A l \in mentioned :
                       DefinitionSize(files, resolveOut.line) <= DefinitionSize(files, l)
           /\ mentioned = {} => resolveOut.line = PrimaryLine(files, resolveIn.trainNumber)

\* C22 witness: 15 is listed for S1 (two train numbers) and S5 (one); the
\* article mentions S1 before S5 and the lookup returns S5.
C22_Witness ==
    /\ ExactCase
    /\ resolveIn.trainNumber = Train15
    /\ resolveIn.mentionedLines = <<S1, S5>>
    /\ KnownLines(resolveOut.filesBefore, Train15) = {S1, S5}
    /\ PrimaryLine(resolveOut.filesBefore, Train15) = S1
    /\ resolveOut.line = S5

\* C23: when the article mentions no line, resolveLineForTrip returns the
\* declared line, or UNKNOWN when none was declared, for every train number:
\* it makes no lookup, so no fallback is attempted, nothing is thrown, nothing
\* is observed, and the definition files are as before.
C23_NoMentionKeepsDeclared ==
    (resolveOut.made /\ resolveIn.lineMentionCount = 0) =>
        /\ ~resolveOut.threw
        /\ resolveOut.line = IF trim(resolveIn.line) = <<>> THEN DEFAULT_LINE
                             ELSE trim(resolveIn.line)
        /\ resolveOut.via = "declared"
        /\ resolveOut.lookups = 0
        /\ resolveOut.observed = <<>>
        /\ defFiles = resolveOut.filesBefore

\* C23 witness: no line is mentioned or declared and the train number is 19,
\* for which the fallback would select the line of 10: UNKNOWN is returned and
\* no file lists 19.
C23_Witness ==
    /\ resolveOut.made
    /\ resolveIn.lineMentionCount = 0
    /\ resolveIn.trainNumber = Train19
    /\ resolveIn.line = <<>>
    /\ PrefixSharing(resolveOut.filesBefore, Train19) # {}
    /\ resolveOut.line = DEFAULT_LINE
    /\ ListedOn(defFiles, Train19) = {}

\* C24: a bucket file is replaced atomically: while it is being written, and
\* after the write has ended in whatever way, the file holds either all of
\* what it held before the write or all of the new sorted bucket.
C24_AtomicReplace ==
    writing.state # "idle" =>
        bucketFiles[writing.path] \in {writing.previous, writing.content}

(***************************************************************************)
(* Claims about the trip section of a page                                 *)
(***************************************************************************)
\* The number of the physical line of the section in which the end marker
\* first occurs, 0 if it does not occur
EndMarkerLineOf(section) ==
    LET at == {p \in 1..Len(section) : startsWith(SubSeq(section, p, Len(section)), TRIPS_END)}
        first == CHOOSE p \in at : \A q \in at : p <= q
    IN IF at = {} THEN 0
       ELSE 1 + Cardinality({k \in 1..(first - 1) : section[k] = "\n"})

\* C25: when extractTripLines returns the candidates of the section after a
\* start marker, every candidate is made of physical lines that come before
\* the end marker 'Ob deine Verbindung': neither a candidate nor a part of a
\* merged candidate is a line after it.
C25_WindowEndsAtEndMarker ==
    \A c \in 1..Len(parses) :
        (parses[c].marker # 0 /\ EndMarkerLineOf(parses[c].section) # 0) =>
            LET origins == CandidateOrigins(parses[c].section)
                endLine == EndMarkerLineOf(parses[c].section)
            IN \A k \in 1..Len(parses[c].steps) :
                  LET step == parses[c].steps[k]
                  IN step.pushed =>
                        \A n \in step.index..(step.index + step.linesConsumed - 1) :
                           origins[n] < endLine

(***************************************************************************)
(* Claims about what a persisted train number changes                      *)
(***************************************************************************)
\* The files of a directory that a step has changed
Changed(before, after) ==
    {n \in DOMAIN after : n \notin DOMAIN before \/ after[n] # before[n]}

\* File n was a definition before the step and is one after it, with the same
\* line id and the same connected lines
KeepsLineAndConnections(before, after, n) ==
    (n \in DOMAIN before /\ before[n].kind = "def") =>
        /\ after[n].kind = "def"
        /\ after[n].line = before[n].line
        /\ after[n].hasConnectedLines = before[n].hasConnectedLines
        /\ after[n].connectedLines = before[n].connectedLines

\* C26: a step that persists a train number, by the fallback write or by the
\* observation merge, writes one file only, and if that file held a
\* definition, its line id and its connected lines are as before.
C26_OnlyTrainNumbersChange ==
    [][/\ Cardinality(Changed(defFiles, defFiles')) <= 1
       /\ Cardinality(Changed(obsFiles, obsFiles')) <= 1
       /\ \A n \in Changed(defFiles, defFiles') :
             KeepsLineAndConnections(defFiles, defFiles', n)
       /\ \A n \in Changed(obsFiles, obsFiles') :
             KeepsLineAndConnections(obsFiles, obsFiles', n)]_vars

\* C27: in mergeTripLines a physical line that is a valid trip line by itself
\* is emitted as its own candidate: no emitted candidate has consumed such a
\* line as the continuation of the line before it, and there are at least as
\* many candidates as there are valid physical lines.
C27_ValidLinesStandAlone ==
    \A c \in 1..Len(parses) :
        LET rawLines == parses[c].rawLines
        IN /\ \A k \in 1..Len(parses[c].steps) :
                 LET step == parses[c].steps[k]
                 IN step.pushed =>
                       \A n \in (step.index + 1)..(step.index + step.linesConsumed - 1) :
                          ~isValidTripLine(rawLines[n])
           /\ Len(parses[c].mergedLines)
                 >= Cardinality({n \in 1..Len(rawLines) : isValidTripLine(rawLines[n])})

(***************************************************************************)
(* Claims about what saveCancellations leaves alone                        *)
(***************************************************************************)
\* How often record r occurs in a file
Occurrences(file, r) == Cardinality({i \in 1..Len(file.entries) : file.entries[i] = r})

\* The bucket files of the (year, line) pairs of the last call's records
PathsOfLastTrips == {PathOf(lastTrips[i]) : i \in 1..Len(lastTrips)}

\* C28: saveCancellations is additive: a record that a readable bucket file
\* held before the call is in that file after it, as often as before and
\* equal in every field; only files of the (year, line) pairs of the given
\* records are read or written, and every other file is as it was.
C28_Additive ==
    saved =>
        /\ \A p \in DOMAIN prevBucketFiles :
              prevBucketFiles[p].kind = "array" =>
                 /\ bucketFiles[p].kind = "array"
                 /\ \A i \in 1..Len(prevBucketFiles[p].entries) :
                       Occurrences(bucketFiles[p], prevBucketFiles[p].entries[i])
                         >= Occurrences(prevBucketFiles[p], prevBucketFiles[p].entries[i])
        /\ DOMAIN lastStats.loads \subseteq PathsOfLastTrips
        /\ lastStats.written \subseteq PathsOfLastTrips
        /\ \A p \in DOMAIN bucketFiles :
              p \notin PathsOfLastTrips =>
                 p \in DOMAIN prevBucketFiles /\ bucketFiles[p] = prevBucketFiles[p]

\* C28 witness: the file of 2024/S5 held two records; the call brings a
\* record with the key of the first and another stand, and a record of
\* 2025/S1: the first file holds its two records as they were and the
\* second file holds the new record.
C28_Witness ==
    /\ saved
    /\ prevBucketFiles[PathBase] = ArrayFile(<<RecBase, RecEarlier>>)
    /\ lastTrips = <<RecSameKey, RecOther>>
    /\ Range(bucketFiles[PathBase].entries) = {RecBase, RecEarlier}
    /\ lastStats.written = {PathBase, PathOf(RecOther)}
    /\ bucketFiles[PathOf(RecOther)] = ArrayFile(<<RecOther>>)

(***************************************************************************)
(* The observation merge and the knowledge base                            *)
(***************************************************************************)
\* The knowledge base that the next run builds when train-lines.ts is loaded
NextKnowledgeBase == BuildKnowledgeBase(defFiles)

\* The lines that a knowledge base lists for a train number, empty without
\* an exact entry
ExactLines(knowledge, trainNumber) ==
    IF knowledge.ok /\ trainNumber \in DOMAIN knowledge.mapping.entry
    THEN Range(knowledge.mapping.entry[trainNumber].lines)
    ELSE {}

\* C29: a train number that the observation merge of this run has added to
\* the definition file of a line has an exact entry with that line in the
\* knowledge base that the next run builds.
C29_ObservationsReachKnowledgeBase ==
    mainPc = "exited" =>
        \A w \in history.obsPersisted :
            w[2] \notin Range(history.obsAtStart[w[1]].trainNumbers) =>
                obsFiles[w[1]].line \in ExactLines(NextKnowledgeBase, w[2])

(***************************************************************************)
(* Claims about the choice among several train numbers of one prefix       *)
(***************************************************************************)
\* The known train numbers that share trainNumber without its last digit
SharingTrainNumbers(files, trainNumber) ==
    {t \in UNION {Range(files[n].trainNumbers) : n \in DOMAIN files} :
        t # trainNumber /\ DropLast(t) = DropLast(trainNumber)}

\* The first of them where the keys of TRAIN_LINE_MAPPING are enumerated:
\* train numbers are integer keys, which come in ascending order
FirstSharing(files, trainNumber) ==
    CHOOSE t \in SharingTrainNumbers(files, trainNumber) :
        \A u \in SharingTrainNumbers(files, trainNumber) : parseInt(t) <= parseInt(u)

\* A lookup was made for a train number of one character that no file lists
ShortCase ==
    /\ resolveOut.made
    /\ resolveOut.lookups = 1
    /\ Len(resolveIn.trainNumber) < 2
    /\ ListedOn(resolveOut.filesBefore, resolveIn.trainNumber) = {}

\* C30: in the fallback case the line is selected from the known lines of
\* the first known train number that shares the prefix, with the preference
\* for mentioned lines applied to that train number's lines alone, and the
\* new train number is added to the file of the selected line and to no
\* other; a train number of fewer than two characters finds no match,
\* raises nothing and writes nothing.
C30_FirstPrefixMatchDecides ==
    /\ FallbackCase =>
          LET files == resolveOut.filesBefore
              first == FirstSharing(files, resolveIn.trainNumber)
              known == KnownLines(files, first)
              mentioned == MentionedKnownLines(files, first, resolveIn.mentionedLines)
          IN /\ resolveOut.via = "fallback"
             /\ resolveOut.line \in known
             /\ mentioned # {} =>
                   /\ resolveOut.line \in mentioned
                   /\ \A l \in mentioned :
                         DefinitionSize(files, resolveOut.line) <= DefinitionSize(files, l)
             /\ mentioned = {} => resolveOut.line = PrimaryLine(files, first)
             /\ ListedOn(defFiles, resolveIn.trainNumber) = {toLowerCase(resolveOut.line)}
             /\ \A n \in DOMAIN defFiles :
                   n # toLowerCase(resolveOut.line) => defFiles[n] = files[n]
    /\ ShortCase =>
          /\ ~resolveOut.threw
          /\ resolveOut.via = "declared"
          /\ defFiles = resolveOut.filesBefore

\* C30 witness: 19 is unknown, 10 (S4) and 15 (S1, S5) share its prefix and
\* the article mentions S1 and S5: the line is S4, the line of 10, and s4.json
\* is the one file that has 19 afterwards.
C30_Witness ==
    /\ FallbackCase
    /\ resolveIn.trainNumber = Train19
    /\ resolveIn.mentionedLines = <<S1, S5>>
    /\ SharingTrainNumbers(resolveOut.filesBefore, Train19) = {Train10, Train15}
    /\ resolveOut.line = S4
    /\ ListedOn(defFiles, Train19) = {toLowerCase(S4)}

\* The short train number 1 was looked up while the one-character train
\* number 2 was known
C30_ShortWitness ==
    /\ ShortCase
    /\ resolveIn.trainNumber = Train1
    /\ SharingTrainNumbers(resolveOut.filesBefore, Train1) = {Train2}
    /\ resolveOut.line = DEFAULT_LINE

====
